---- MODULE Spec2Model ----
(***************************************************************************)
(* chain-builder: the execution engine (lib/CallQueue.js), the chain       *)
(* facade (lib/chainFactory.js), the call context (lib/contextFactory.js)  *)
(* and the built-in hooks (lib/methods/builtInMethods.js).                 *)
(*                                                                         *)
(* JavaScript runs one macrotask at a time.  A step of this model is one   *)
(* decision of user code (an operation body, a hook's callback, the        *)
(* terminal callback, a timer firing, a builder call) together with all    *)
(* the engine code that runs synchronously in consequence, up to the next  *)
(* point where user code decides again.                                    *)
(***************************************************************************)
EXTENDS Integers, Sequences, FiniteSets, TLC

\* Longest descriptor list built by the chained calls.
MaxQueue == 3
\* the number of calls made on a chain that is built with blocks
MaxBuild == 5
\* how deep the blocks of a logged chain are nested
MaxNesting == 2
\* the number of queues started in a logged run
MaxStarted == 3
\* the number of arguments a method declares
MaxDeclared == 2
\* the number of ids a logger gives out
MaxIds == 6

VARIABLES
    queue,    \* the descriptor array (_queue), shared by a queue and its clone
    qs,       \* the CallQueue objects: the chain's own queue and run()'s clone
    stack,    \* the active try blocks of _runCall, innermost last
    cur,      \* the user code that is running on top of the stack
    root,     \* what the current macrotask was entered from
    pending,  \* operations that returned without calling back (timers set)
    obs,      \* observation of each queue's calls (history, not program state)
    given,    \* the argument the chain constructor was called with
    owner,    \* history: the chain through which each descriptor was appended
    cloned,   \* history: the length of the array when each clone was made
    runOf,    \* history: the chain each run was started on
    facade,   \* a Chain that keeps the open blocks itself (chainFactory.js)
    builder,  \* a CallQueue that keeps the open blocks itself (CallQueue.js)
    blocks,   \* history: the markers that are open, and what the last call did
    seed,     \* history: the initial value each run of a block's body was given
    logged,   \* the CallQueue objects of a logged chain: parent and start memo
    events,   \* the events the log handlers were given
    again,    \* history: what a start of a queue that was started did
    validated, \* history: the call that was validated, and what came of it
    trace,    \* the run's chain-start memo and the events the log handlers got, in order
    issued,   \* the Logger's id index, the ids in the memos, and the events with ids
    heap      \* the CallQueue objects of a run with blocks, and their contexts

\* what the engine's steps leave as it is
\* what only the specifications of single calls change
\* what the runs of whole chains leave as it is
Rest == <<heap>>

Aux == <<again, validated, trace, issued, Rest>>

ext == <<given, owner, cloned, runOf, facade, builder, blocks, seed, logged, events, Aux>>

vars == <<queue, qs, stack, cur, root, pending, obs, ext>>

\* the CallQueue objects there are: the chain's own queue and run()'s clone,
\* and where more chains are made, theirs
QIds == DOMAIN qs
\* a.clone(): the chains made from the first one
Clones == {"b", "c"}
Runs == {"run", "run2"}
\* subchain.run(...): the runs of a block's body
Subs == {"sub1", "sub2"}
Calls == 1..MaxQueue

(***************************************************************************)
(* Values                                                                  *)
(***************************************************************************)
Undefined == [t |-> "undefined", n |-> 0]
Null == [t |-> "null", n |-> 0]
None == [t |-> "none", n |-> 0]
\* the result, the error and the exception that call i produces
R(i) == [t |-> "R", n |-> i]
E(i) == [t |-> "E", n |-> i]
X(i) == [t |-> "X", n |-> i]

\* !!v
\* 0, '' and false
Zero == [t |-> "zero", n |-> 0]
EmptyString == [t |-> "empty", n |-> 0]
False == [t |-> "false", n |-> 0]

Truthy(v) == v.t \notin {"undefined", "null", "zero", "empty", "false"}

Args(e, r) == [e |-> e, r |-> r]
NoArgs == Args(None, None)

(***************************************************************************)
(* The method table                                                        *)
(***************************************************************************)
\* "op" is any user-supplied method; tap also stands for its alias end.
Methods == {"op", "tap", "recover", "transform"}

\* mutant: tap loses its $interceptErrors flag
interceptErrors_noTap(m) == m \in {"recover", "transform"}

interceptErrors(m) == m \in {"tap", "end", "recover", "transform"}

(***************************************************************************)
(* CallContext                                                             *)
(***************************************************************************)
CallContext == [currentResult |-> Undefined, currentError |-> Undefined]

setResult(c, result) == [c EXCEPT !.currentResult = result]

setError(c, error) == [c EXCEPT !.currentError = error]

hasError(c) == Truthy(c.currentError)

previousResult(c) == c.currentResult

previousError(c) == c.currentError

(***************************************************************************)
(* CallQueue                                                               *)
(***************************************************************************)
CallQueue ==
    [exists |-> TRUE, isStarted |-> FALSE, isProcessing |-> FALSE,
     currentPosition |-> 0, whenDone |-> FALSE, context |-> CallContext]

NoQueue == [CallQueue EXCEPT !.exists = FALSE]

NoUser == [k |-> "none", q |-> "chain", i |-> 0]
NoRoot == [k |-> "none", q |-> "chain", i |-> 0]

ObsInit ==
    [status |-> [i \in Calls |-> "none"],
     inv |-> [i \in Calls |-> 0],
     fired |-> [i \in Calls |-> NoArgs],
     via |-> [i \in Calls |-> "none"],
     cbArgs |-> [i \in Calls |-> NoArgs],
     fin |-> [i \in Calls |-> 0],
     term |-> <<>>,
     startLen |-> 0]

RECURSIVE maybeProcessNext(_, _)
RECURSIVE callDone(_, _, _, _)
RECURSIVE done(_, _, _, _, _)
RECURSIVE runCall(_, _, _)

\* CallContext.prototype.skip: cb(this.previousError(), this.previousResult())
skip(c) == Args(previousError(c), previousResult(c))

\* CallQueue.prototype._skip(this._callDone.bind(this)): the bypassed
\* descriptor i completes with the current (error, result).
skipCall(w, id, i) ==
    LET a == skip(w.qs[id].context)
        w1 == [w EXCEPT !.obs[id].status[i] = "skipped",
                        !.obs[id].fired[i] = a]
    IN  callDone(w1, id, a.e, a.r)

\* tap (and end): the callback gets the current (error, result).
tap(w, id, i) ==
    LET c == w.qs[id].context
    IN  [w EXCEPT !.cur = [k |-> "tapCallback", q |-> id, i |-> i],
                  !.obs[id].cbArgs[i] = Args(previousError(c), previousResult(c))]

\* mutant: tap calls back with no error and the current result
tapSkip_clearsError(w, id, i) ==
    done(w, id, i, Null, previousResult(w.qs[id].context))

\* tap, after its callback returned: this.skip(done)
tapSkip(w, id, i) ==
    LET a == skip(w.qs[id].context)
    IN  done(w, id, i, a.e, a.r)

\* mutant: end is the alias of tap (lib/methods/builtInMethods.js)
end_asTap(w, id, i) == tap(w, id, i)

\* end calls this.skip(done) first: the frame of its call is left with the
\* callback still to call, which is done when control comes back to it
end(w, id, i) ==
    LET a == skip(w.qs[id].context)
        top == Len(w.stack)
    IN  done([w EXCEPT !.stack[top].cb = TRUE], id, i, a.e, a.r)

\* mutant: recover calls its callback whether or not there is an error
recover_always(w, id, i) ==
    LET c == w.qs[id].context
    IN  [w EXCEPT !.cur = [k |-> "recoverCallback", q |-> id, i |-> i],
                  !.obs[id].cbArgs[i] = Args(previousError(c), None)]

recover(w, id, i) ==
    LET c == w.qs[id].context
    IN  IF hasError(c)
        THEN [w EXCEPT !.cur = [k |-> "recoverCallback", q |-> id, i |-> i],
                       !.obs[id].cbArgs[i] = Args(previousError(c), None)]
        ELSE done(w, id, i, skip(c).e, skip(c).r)

transform(w, id, i) ==
    LET c == w.qs[id].context
    IN  [w EXCEPT !.cur = [k |-> "transformCallback", q |-> id, i |-> i],
                  !.obs[id].cbArgs[i] = Args(c.currentError, c.currentResult)]

\* method.apply(this._context, args.concat(done)) for a user method
apply(w, id, i) ==
    [w EXCEPT !.cur = [k |-> "op", q |-> id, i |-> i]]

\* _runCall enters its try block (a frame on the stack) and calls the method
runCall(w, id, i) ==
    LET method == w.queue[i].method
        w1 == [w EXCEPT !.stack = Append(@, [q |-> id, call |-> i, st |-> "body",
                                             cb |-> FALSE]),
                        !.obs[id].status[i] = "run",
                        !.obs[id].inv[i] = @ + 1]
    IN  CASE method = "tap" -> tap(w1, id, i)
          [] method = "end" -> end(w1, id, i)
          [] method = "recover" -> recover(w1, id, i)
          [] method = "transform" -> transform(w1, id, i)
          [] OTHER -> apply(w1, id, i)

\* the done closure of _runCall for call i: cb.call(this, error, result)
done(w, id, i, error, result) ==
    LET w1 == IF w.obs[id].status[i] = "run"
              THEN [w EXCEPT !.obs[id].status[i] = "done",
                             !.obs[id].fired[i] = Args(error, result)]
              ELSE w
    IN  callDone([w1 EXCEPT !.cur = NoUser, !.obs[id].fin[i] = @ + 1],
                 id, error, result)

\* mutant: the in-flight flag is not cleared on completion
callDone_staysProcessing(w, id, error, result) ==
    LET c1 == setError(w.qs[id].context, error)
        c2 == setResult(c1, IF hasError(c1) THEN Undefined ELSE result)
    IN  maybeProcessNext([w EXCEPT !.qs[id].context = c2], id)

\* mutant: the result is stored whatever the error
callDone_keepResult(w, id, error, result) ==
    LET c1 == setError(w.qs[id].context, error)
        c2 == setResult(c1, result)
    IN  maybeProcessNext([w EXCEPT !.qs[id].context = c2,
                                   !.qs[id].isProcessing = FALSE], id)

\* mutant: a completion is stored in the context of the chain's run as well
callDone_parentContext(w, id, error, result) ==
    LET c1 == setError(w.qs[id].context, error)
        c2 == setResult(c1, IF hasError(c1) THEN Undefined ELSE result)
    IN  maybeProcessNext([w EXCEPT !.qs[id].context = c2,
                                   !.qs["run"].context = c2,
                                   !.qs[id].isProcessing = FALSE], id)

callDone(w, id, error, result) ==
    LET c1 == setError(w.qs[id].context, error)
        c2 == setResult(c1, IF hasError(c1) THEN Undefined ELSE result)
    IN  maybeProcessNext([w EXCEPT !.qs[id].context = c2,
                                   !.qs[id].isProcessing = FALSE], id)

\* mutant: the advance step forgets the in-flight guard
maybeProcessNext_ignoreProcessing(w, id) ==
    LET q == w.qs[id]
    IN  IF ~q.isStarted THEN w
        ELSE IF q.currentPosition < Len(w.queue)
        THEN LET i == q.currentPosition + 1
                 callDescriptor == w.queue[i]
                 w1 == [w EXCEPT !.qs[id].isProcessing = TRUE,
                                 !.qs[id].currentPosition = i]
                 skp == hasError(q.context) /\ callDescriptor.skipOnError
             IN  IF ~skp THEN runCall(w1, id, i) ELSE skipCall(w1, id, i)
        ELSE IF q.whenDone
        THEN [w EXCEPT !.cur = [k |-> "whenDone", q |-> id, i |-> 0],
                       !.obs[id].term = Append(@,
                           Args(previousError(q.context),
                                previousResult(q.context)))]
        ELSE w

\* mutant: the advance step forgets the started guard
maybeProcessNext_ignoreStarted(w, id) ==
    LET q == w.qs[id]
    IN  IF q.isProcessing THEN w
        ELSE IF q.currentPosition < Len(w.queue)
        THEN LET i == q.currentPosition + 1
                 callDescriptor == w.queue[i]
                 w1 == [w EXCEPT !.qs[id].isProcessing = TRUE,
                                 !.qs[id].currentPosition = i]
                 skp == hasError(q.context) /\ callDescriptor.skipOnError
             IN  IF ~skp THEN runCall(w1, id, i) ELSE skipCall(w1, id, i)
        ELSE IF q.whenDone
        THEN [w EXCEPT !.cur = [k |-> "whenDone", q |-> id, i |-> 0],
                       !.obs[id].term = Append(@,
                           Args(previousError(q.context),
                                previousResult(q.context)))]
        ELSE w

\* mutant: the advance step takes the queue to be drained one call early
maybeProcessNext_stopsShort(w, id) ==
    LET q == w.qs[id]
    IN  IF q.isProcessing \/ ~q.isStarted THEN w
        ELSE IF q.currentPosition < Len(w.queue) - 1
        THEN LET i == q.currentPosition + 1
                 callDescriptor == w.queue[i]
                 w1 == [w EXCEPT !.qs[id].isProcessing = TRUE,
                                 !.qs[id].currentPosition = i]
                 skp == hasError(q.context) /\ callDescriptor.skipOnError
             IN  IF ~skp THEN runCall(w1, id, i) ELSE skipCall(w1, id, i)
        ELSE IF q.whenDone
        THEN [w EXCEPT !.cur = [k |-> "whenDone", q |-> id, i |-> 0],
                       !.obs[id].term = Append(@,
                           Args(previousError(q.context),
                                previousResult(q.context)))]
        ELSE w

\* mutant: no descriptor is bypassed in an error state
maybeProcessNext_neverSkips(w, id) ==
    LET q == w.qs[id]
    IN  IF q.isProcessing \/ ~q.isStarted THEN w
        ELSE IF q.currentPosition < Len(w.queue)
        THEN LET i == q.currentPosition + 1
                 w1 == [w EXCEPT !.qs[id].isProcessing = TRUE,
                                 !.qs[id].currentPosition = i]
             IN  runCall(w1, id, i)
        ELSE IF q.whenDone
        THEN [w EXCEPT !.cur = [k |-> "whenDone", q |-> id, i |-> 0],
                       !.obs[id].term = Append(@,
                           Args(previousError(q.context),
                                previousResult(q.context)))]
        ELSE w

maybeProcessNext(w, id) ==
    LET processNext(v) ==
            LET q == v.qs[id]
            IN  IF q.isProcessing \/ ~q.isStarted THEN v
                ELSE IF q.currentPosition < Len(v.queue)
                THEN LET i == q.currentPosition + 1
                         callDescriptor == v.queue[i]
                         v1 == [v EXCEPT !.qs[id].isProcessing = TRUE,
                                         !.qs[id].currentPosition = i]
                         skp == hasError(q.context) /\ callDescriptor.skipOnError
                     IN  IF ~skp THEN runCall(v1, id, i) ELSE skipCall(v1, id, i)
                ELSE IF q.whenDone
                THEN [v EXCEPT !.cur = [k |-> "whenDone", q |-> id, i |-> 0],
                               !.obs[id].term = Append(@,
                                   Args(previousError(q.context),
                                        previousResult(q.context)))]
                ELSE v
    \* the queue's state is read once, as it is when the method is entered
    IN  CHOOSE r \in {processNext(v) : v \in {w}} : TRUE

start(w, id, initialResult, cb) ==
    LET w1 == [w EXCEPT !.qs[id].isStarted = TRUE,
                        !.qs[id].whenDone = cb,
                        !.qs[id].context = setResult(@, initialResult),
                        !.obs[id].startLen = Len(w.queue)]
    IN  maybeProcessNext(w1, id)

\* mutant: the clone takes over the cursor and context of the earlier run
clone_sharedState(w, id, new) ==
    [w EXCEPT !.qs[new] = IF w.qs["run"].exists THEN w.qs["run"] ELSE CallQueue]

\* CallQueue.prototype.clone: a new queue over the same descriptor array
clone(w, id, new) == [w EXCEPT !.qs[new] = CallQueue]

\* mutant: appending a call starts the queue
add_starting(w, id, methodName, skipOnError) ==
    LET w1 == [w EXCEPT !.queue = Append(@,
                   [method |-> methodName, skipOnError |-> skipOnError]),
                        !.qs[id].isStarted = TRUE]
    IN  maybeProcessNext(w1, id)

add(w, id, methodName, skipOnError) ==
    LET w1 == [w EXCEPT !.queue = Append(@,
                   [method |-> methodName, skipOnError |-> skipOnError])]
    IN  maybeProcessNext(w1, id)

\* mutant: the handler passes the exception as the result
domainError_asResult(w, id, error) ==
    LET i == w.root.i
        w1 == IF w.obs[id].status[i] = "run"
              THEN [w EXCEPT !.obs[id].status[i] = "done",
                             !.obs[id].fired[i] = Args(Undefined, error)]
              ELSE w
    IN  callDone([w1 EXCEPT !.root.k = "handler", !.stack = <<>>,
                            !.cur = NoUser, !.obs[id].fin[i] = @ + 1],
                 id, Undefined, error)

\* the 'error' handler of the queue's domain: this._callDone(error).  It
\* runs when an exception leaves a callback the operation w.root.i scheduled.
domainError(w, id, error) ==
    LET i == w.root.i
        w1 == IF w.obs[id].status[i] = "run"
              THEN [w EXCEPT !.obs[id].status[i] = "done",
                             !.obs[id].fired[i] = Args(error, Undefined)]
              ELSE w
    IN  callDone([w1 EXCEPT !.root.k = "handler", !.stack = <<>>,
                            !.cur = NoUser, !.obs[id].fin[i] = @ + 1],
                 id, error, Undefined)

\* mutant: the catch clause passes the exception as the result
catch_asResult(w, j, e) ==
    LET f == w.stack[j]
        w1 == [w EXCEPT !.stack = Append(SubSeq(w.stack, 1, j - 1),
                                         [f EXCEPT !.st = "catch", !.cb = FALSE])]
    IN  done(w1, f.q, f.call, Undefined, e)

\* catch (e) { done(e, undefined) } of the try block at stack[j]; the frames
\* above it are left by the exception.
catch(w, j, e) ==
    LET f == w.stack[j]
        w1 == [w EXCEPT !.stack = Append(SubSeq(w.stack, 1, j - 1),
                                         [f EXCEPT !.st = "catch", !.cb = FALSE])]
    IN  done(w1, f.q, f.call, e, Undefined)

\* An exception leaves the running user code: the innermost try block that
\* is not yet in its catch clause takes it, else the domain, else the caller.
raise(w, e) ==
    LET open == {j \in 1..Len(w.stack) : w.stack[j].st = "body"}
    IN  IF open # {}
        THEN catch(w, CHOOSE j \in open : \A k \in open : k <= j, e)
        ELSE IF w.root.k = "domain"
        THEN domainError(w, w.root.q, e)
        ELSE [w EXCEPT !.cur = NoUser, !.stack = <<>>]

(***************************************************************************)
(* Steps                                                                   *)
(***************************************************************************)
W == [queue |-> queue, qs |-> qs, stack |-> stack, cur |-> cur,
      root |-> root, pending |-> pending, obs |-> obs]

\* the frames of end calls that have their callback still to call
Awaiting(w) == {j \in 1..Len(w.stack) : w.stack[j].cb}

\* control is back in the end call of frame j: the frames above it have
\* returned, and endCallback.call(this, this.previousError(),
\* this.previousResult()) is next
endCallback(w, j) ==
    LET f == w.stack[j]
        c == w.qs[f.q].context
    IN  [w EXCEPT !.stack = Append(SubSeq(w.stack, 1, j - 1), [f EXCEPT !.cb = FALSE]),
                  !.cur = [k |-> "endCallback", q |-> f.q, i |-> f.call],
                  !.obs[f.q].cbArgs[f.call] =
                      Args(previousError(c), previousResult(c))]

\* when no user code is left running, every frame returns: to the innermost
\* end call that has its callback to call, else to the event loop
Settle(w) ==
    IF w.cur.k # "none" THEN w
    ELSE IF Awaiting(w) # {}
    THEN endCallback(w, CHOOSE j \in Awaiting(w) : \A k \in Awaiting(w) : k <= j)
    ELSE [w EXCEPT !.stack = <<>>, !.root = NoRoot]

Commit(w0) ==
    \E w \in {Settle(w0)} :
        /\ queue' = w.queue
        /\ qs' = w.qs
        /\ stack' = w.stack
        /\ cur' = w.cur
        /\ root' = w.root
        /\ pending' = w.pending
        /\ obs' = w.obs

Install(w0) == Commit(w0) /\ UNCHANGED ext

Idle == cur.k = "none"

FromMain(w) == [w EXCEPT !.root = [k |-> "main", q |-> "chain", i |-> 0]]

\* new Chain(options): with an initial result the chain's queue is started
Chain(w, initialResult) ==
    IF initialResult # Undefined THEN start(w, "chain", initialResult, FALSE) ELSE w

\* the chain constructor the module exports
chain(w, initialResult) ==
    IF Truthy(initialResult) THEN Chain(w, initialResult) ELSE Chain(w, Undefined)

(***************************************************************************)
(* Blocks.  A method marked $beginSubchain opens a block and one marked    *)
(* $endSubchain closes it; the calls between them are the block's body.    *)
(* The sources hold two ways of keeping the open blocks: the Chain of      *)
(* chainFactory.js keeps a stack of queues and of block names, and the     *)
(* CallQueue of CallQueue.js keeps its open block as a child queue and     *)
(* hands the calls down to it.  Both are given the same calls.             *)
(***************************************************************************)
\* $beginSubchain = 'map', 'each'
BlockNames == {"map", "each"}

\* the methods of a chain: an operation, and per block its two markers
BlockMethods ==
    {[name |-> "op", begin |-> "none", end |-> "none"]}
    \cup {[name |-> "begin", begin |-> b, end |-> "none"] : b \in BlockNames}
    \cup {[name |-> "end", begin |-> "none", end |-> b] : b \in BlockNames}

\* the descriptor of the n-th call made on the chain
Descriptor(method, n, subqueue) ==
    [method |-> method, n |-> n, subqueue |-> subqueue]

\* chainFactory.js: new Chain()
ChainOfQueues ==
    [_callQueue |-> <<>>, _callQueueStack |-> <<>>, _callQueueNameStack |-> <<>>]

\* Chain.prototype._beginSubchain
_beginSubchain(c, subchainName) ==
    [c EXCEPT !._callQueueStack = Append(@, c._callQueue),
              !._callQueueNameStack = Append(@, subchainName),
              !._callQueue = <<>>]

\* mutant: the name of the block that is closed is not compared
_endSubchain_unchecked(c, subchainName) ==
    IF c._callQueueStack = <<>>
    THEN [c |-> c, threw |-> FALSE, subchain |-> <<c._callQueue>>]
    ELSE [c |-> [c EXCEPT !._callQueueNameStack = SubSeq(@, 1, Len(@) - 1),
                          !._callQueue = c._callQueueStack[Len(c._callQueueStack)],
                          !._callQueueStack = SubSeq(@, 1, Len(@) - 1)],
          threw |-> FALSE, subchain |-> <<c._callQueue>>]

\* Chain.prototype._endSubchain: the name stack is popped before the names
\* are compared, and popping the empty stack gives undefined
_endSubchain(c, subchainName) ==
    LET names == c._callQueueNameStack
        currentSubchainName ==
            IF names = <<>> THEN "undefined" ELSE names[Len(names)]
        c1 == [c EXCEPT !._callQueueNameStack =
                            IF names = <<>> THEN <<>> ELSE SubSeq(@, 1, Len(@) - 1)]
    IN  IF currentSubchainName # subchainName
        THEN [c |-> c1, threw |-> TRUE, subchain |-> <<>>]
        ELSE [c |-> [c1 EXCEPT !._callQueue = c._callQueueStack[Len(c._callQueueStack)],
                               !._callQueueStack = SubSeq(@, 1, Len(@) - 1)],
              threw |-> FALSE, subchain |-> <<c._callQueue>>]

\* Chain.prototype._addToChain, with the queue's add
_addToChain(c, method, n) ==
    LET e == IF method.end # "none" THEN _endSubchain(c, method.end)
             ELSE [c |-> c, threw |-> FALSE, subchain |-> <<>>]
        c1 == [e.c EXCEPT !._callQueue =
                              Append(@, Descriptor(method, n, e.subchain))]
    IN  IF e.threw THEN [c |-> e.c, threw |-> TRUE]
        ELSE [c |-> IF method.begin # "none" THEN _beginSubchain(c1, method.begin)
                    ELSE c1,
              threw |-> FALSE]

\* mutant: a chain with open blocks is cloned and run like any other
hasOpenBlocks_never(c) == FALSE

\* this._callQueueStack.length > 0
hasOpenBlocks(c) == Len(c._callQueueStack) > 0

\* Chain.prototype.clone: what the call did
Chain_clone(c) ==
    IF hasOpenBlocks(c) THEN [threw |-> TRUE, cloned |-> FALSE, started |-> FALSE]
    ELSE [threw |-> FALSE, cloned |-> TRUE, started |-> FALSE]

\* Chain.prototype.run: what the call did
Chain_run(c) ==
    IF hasOpenBlocks(c) THEN [threw |-> TRUE, cloned |-> FALSE, started |-> FALSE]
    ELSE [threw |-> FALSE, cloned |-> TRUE, started |-> TRUE]

\* CallQueue.js: new CallQueue(); _subqueue holds the child queue, if any
QueueOfQueues ==
    [_queue |-> <<>>, _subqueue |-> <<>>, _subqueueType |-> "null",
     _subqueueDepth |-> 0, _isStarted |-> FALSE, _currentPosition |-> 0]

\* _maybeProcessNext of a queue whose calls complete as they are run (the
\* markers of the tests are this.skip(done)): a started queue runs what it
\* holds
Built_maybeProcessNext(q) ==
    IF ~q._isStarted THEN q ELSE [q EXCEPT !._currentPosition = Len(q._queue)]

\* CallQueue.prototype._maybeOpenSubqueue
_maybeOpenSubqueue(q, method) ==
    IF method.begin = "none" THEN [q |-> q, created |-> FALSE]
    ELSE LET q1 == [q EXCEPT !._subqueueDepth = @ + 1]
         IN  IF q1._subqueue = <<>>
             THEN [q |-> [q1 EXCEPT !._subqueueType = method.begin,
                                    !._subqueue = <<QueueOfQueues>>],
                   created |-> TRUE]
             ELSE [q |-> q1, created |-> FALSE]

\* CallQueue.prototype._maybeCloseSubqueue: the depth is counted down before
\* the types are compared
_maybeCloseSubqueue(q, method) ==
    IF method.end = "none" THEN [q |-> q, threw |-> FALSE, subqueue |-> <<>>]
    ELSE IF q._subqueue = <<>> THEN [q |-> q, threw |-> TRUE, subqueue |-> <<>>]
    ELSE LET q1 == [q EXCEPT !._subqueueDepth = @ - 1]
         IN  IF q1._subqueueDepth > 0
             THEN [q |-> q1, threw |-> FALSE, subqueue |-> <<>>]
             ELSE IF method.end # q1._subqueueType
             THEN [q |-> q1, threw |-> TRUE, subqueue |-> <<>>]
             ELSE [q |-> [q1 EXCEPT !._subqueue = <<>>, !._subqueueType = "null"],
                   threw |-> FALSE, subqueue |-> q1._subqueue]

\* mutant: the call is pushed on the queue it is made on, open block or not
CallQueue_add_here(q, method, n) ==
    LET o == _maybeOpenSubqueue(q, method)
        e == _maybeCloseSubqueue(o.q, method)
    IN  IF e.threw THEN [q |-> e.q, threw |-> TRUE]
        ELSE [q |-> Built_maybeProcessNext(
                        [e.q EXCEPT !._queue =
                                        Append(@, Descriptor(method, n, e.subqueue))]),
              threw |-> FALSE]

\* CallQueue.prototype.add of CallQueue.js
RECURSIVE CallQueue_add(_, _, _)
CallQueue_add(q, method, n) ==
    LET o == _maybeOpenSubqueue(q, method)
        e == _maybeCloseSubqueue(o.q, method)
    IN  IF e.threw THEN [q |-> e.q, threw |-> TRUE]
        ELSE IF e.q._subqueue # <<>> /\ ~o.created
        THEN LET r == CallQueue_add(e.q._subqueue[1], method, n)
             IN  [q |-> [e.q EXCEPT !._subqueue = <<r.q>>], threw |-> r.threw]
        ELSE [q |-> Built_maybeProcessNext(
                        [e.q EXCEPT !._queue =
                                        Append(@, Descriptor(method, n, e.subqueue))]),
              threw |-> FALSE]

NoBlocks ==
    [open |-> <<>>, n |-> 0, thrown |-> FALSE,
     last |-> [call |-> "none", mismatch |-> FALSE, wasOpen |-> FALSE,
               threwChain |-> FALSE, threwQueue |-> FALSE,
               cloned |-> FALSE, started |-> FALSE]]

(***************************************************************************)
(* Logging.  Each CallQueue has a parent queue (or none) and, once         *)
(* started, the memo of its chain-start event, which holds its depth.      *)
(* The queues are numbered; 0 stands for null.  A chain is built with      *)
(* blocks nested MaxNesting deep: queue 1 is the chain's own, queue k + 1  *)
(* is the subqueue of the block in queue k, made by _newChildQueue.        *)
(***************************************************************************)
NoMemo == [started |-> FALSE, depth |-> 0]

\* new CallQueue(...): level is the nesting of the descriptors it runs
\* (history), truth the depth of nesting of the run it makes (history)
LoggedQueue(level, parent) ==
    [exists |-> TRUE, level |-> level, _parentQueue |-> parent,
     _chainStartMemo |-> NoMemo, truth |-> 0, ended |-> FALSE]

NoLoggedQueue == [LoggedQueue(0, 0) EXCEPT !.exists = FALSE]

QueueNumbers == 1..(MaxNesting + 1 + MaxStarted)

\* CallQueue.prototype._setParent
_setParent(q, parent) == [q EXCEPT !._parentQueue = parent]

\* CallQueue.prototype._newChildQueue
_newChildQueue(level, this) == _setParent(LoggedQueue(level, 0), this)

\* mutant: the clone is not given the parent of the queue it is cloned from
Logged_clone_orphan(q) == LoggedQueue(q.level, 0)

\* CallQueue.prototype.clone of the logging CallQueue
Logged_clone(q) ==
    IF q._parentQueue # 0 THEN _setParent(LoggedQueue(q.level, 0), q._parentQueue)
    ELSE LoggedQueue(q.level, 0)

\* Logger.prototype.chainStart: the memo it returns
chainStart(parentChainStartMemo) ==
    [started |-> TRUE,
     depth |-> IF parentChainStartMemo.started
               THEN parentChainStartMemo.depth + 1 ELSE 0]

\* this._parentQueue && this._parentQueue._chainStartMemo
parentMemo(qq, q) ==
    IF q._parentQueue # 0 THEN qq[q._parentQueue]._chainStartMemo ELSE NoMemo

\* CallQueue.prototype.start of the logging CallQueue
Logged_start(qq, q) == [q EXCEPT !._chainStartMemo = chainStart(parentMemo(qq, q))]

\* the chain as built: the queue of the chain and the subqueues of its blocks
BuiltQueues ==
    [n \in QueueNumbers |->
        IF n <= MaxNesting + 1
        THEN IF n = 1 THEN LoggedQueue(0, 0) ELSE _newChildQueue(n - 1, n - 1)
        ELSE NoLoggedQueue]

Event(type, n, q, truth) ==
    [type |-> type, queue |-> n, depth |-> q._chainStartMemo.depth, truth |-> truth]

\* no queue was started a second time
(***************************************************************************)
(* Validation of a call's arguments and previous result                    *)
(***************************************************************************)
\* the values a call is given where their runtime type matters
Num(n) == [t |-> "number", n |-> n]
Str(n) == [t |-> "string", n |-> n]
\* new FooClass(...) is Obj(Foo); a plain object is Obj(Plain)
Plain == 0
Foo == 1
Obj(c) == [t |-> "object", n |-> c]
\* function (r) { return r; } and function (r) { return new FooClass(r); }
FnPrev == [t |-> "function", n |-> 0]
FnFoo == [t |-> "function", n |-> 1]

\* typeof v
typeof(v) ==
    CASE v.t \in {"number", "string", "function", "undefined", "object"} -> v.t
      [] v.t = "zero" -> "number"
      [] v.t = "empty" -> "string"
      [] v.t = "false" -> "boolean"
      [] OTHER -> "object"

\* v instanceof c
instanceof(v, c) == v.t = "object" /\ v.n = c

\* arg.call(this._context, this._context.previousResult())
derive(f, previous) == IF f = FnFoo THEN Obj(Foo) ELSE previous

\* a spec of one argument; type "" and instanceOf None are the absent ones
ArgSpec(required, default, defaultToPreviousResult, type, instOf) ==
    [required |-> required, default |-> default,
     defaultToPreviousResult |-> defaultToPreviousResult,
     type |-> type, instanceOf |-> instOf]

NoClass == 2

NoError ==
    [kind |-> "none", position |-> 0, declared |-> 0, supplied |-> 0,
     expected |-> "", actual |-> "", value |-> None]

\* new Error('Validation Error. ...'): the parts of each message
CountError(declared, supplied) ==
    [NoError EXCEPT !.kind = "count", !.declared = declared, !.supplied = supplied]

RequiredError(i) == [NoError EXCEPT !.kind = "required", !.position = i]

TypeError(arg, type) ==
    [NoError EXCEPT !.kind = "type", !.actual = typeof(arg), !.expected = type,
                    !.value = arg]

InstanceError(i) == [NoError EXCEPT !.kind = "instanceOf", !.position = i]

PreviousTypeError(previous, type) ==
    [NoError EXCEPT !.kind = "previousType", !.actual = typeof(previous),
                    !.expected = type, !.value = previous]

PreviousInstanceError == [NoError EXCEPT !.kind = "previousInstanceOf"]

\* what a validation comes to: the error thrown and the position the loop was
\* at (0 outside the loop), or the arguments returned; derived is the set of
\* positions whose function was invoked on the way
Validation(error, at, args, derived) ==
    [error |-> error, at |-> at, args |-> args, derived |-> derived]

_validatePreviousResult(previous, previousResultSpec) ==
    IF previousResultSpec.instanceOf # NoClass
       /\ ~instanceof(previous, previousResultSpec.instanceOf)
    THEN PreviousInstanceError
    ELSE IF previousResultSpec.type # "" /\ typeof(previous) # previousResultSpec.type
    THEN PreviousTypeError(previous, previousResultSpec.type)
    ELSE NoError

\* mutant: a function is invoked whatever the spec expects
derives_always(arg, currentArgSpec) == typeof(arg) = "function"

\* the condition under which the value is taken for a function that derives
\* the argument
derives(arg, currentArgSpec) ==
    /\ typeof(arg) = "function"
    /\ \/ currentArgSpec.instanceOf # NoClass
       \/ currentArgSpec.type # "" /\ currentArgSpec.type # "function"

\* mutant: a missing argument is never asked for
isRequired_never(currentArgSpec) == FALSE

isRequired(currentArgSpec) == currentArgSpec.required

\* mutant: the declared default is used even where the previous result is
\* asked for
defaultOf_declared(currentArgSpec, previous) == currentArgSpec.default

defaultOf(currentArgSpec, previous) ==
    IF currentArgSpec.defaultToPreviousResult THEN previous ELSE currentArgSpec.default

\* mutant: more arguments than specs are let through
tooMany_never(args, argSpec) == FALSE

tooMany(args, argSpec) == Len(args) > Len(argSpec)

RECURSIVE populate(_, _, _, _, _, _)
\* the loop of _validateAndPopulateArgs from position i on
populate(args, argSpec, previous, i, argsWithDefaults, derived) ==
    IF i > Len(argSpec)
    THEN Validation(NoError, 0, argsWithDefaults, derived)
    ELSE LET noMoreArgs == i > Len(args)
             currentArgSpec == argSpec[i]
         IN  IF noMoreArgs /\ isRequired(currentArgSpec)
             THEN Validation(RequiredError(i), i, <<>>, derived)
             ELSE LET arg0 == IF noMoreArgs THEN defaultOf(currentArgSpec, previous)
                                            ELSE args[i]
                      d == derives(arg0, currentArgSpec)
                      arg == IF d THEN derive(arg0, previous) ELSE arg0
                      derived1 == IF d THEN derived \cup {i} ELSE derived
                  IN  IF currentArgSpec.type # "" /\ typeof(arg) # currentArgSpec.type
                      THEN Validation(TypeError(arg, currentArgSpec.type), i, <<>>, derived1)
                      ELSE IF currentArgSpec.instanceOf # NoClass
                              /\ ~instanceof(arg, currentArgSpec.instanceOf)
                      THEN Validation(InstanceError(i), i, <<>>, derived1)
                      ELSE populate(args, argSpec, previous, i + 1,
                                    Append(argsWithDefaults, arg), derived1)

_validateAndPopulateArgs(args, argSpec, previous) ==
    IF tooMany(args, argSpec)
    THEN Validation(CountError(Len(argSpec), Len(args)), 0, <<>>, {})
    ELSE populate(args, argSpec, previous, 1, <<>>, {})

\* a method and what it declares: $previousResult and $args, each present or
\* not
Method(hasPrevious, previousResultSpec, hasArgs, argSpec) ==
    [hasPrevious |-> hasPrevious, previousResultSpec |-> previousResultSpec,
     hasArgs |-> hasArgs, argSpec |-> argSpec]

\* mutant: the arguments are validated first
validate_argsFirst(method, args, previous) ==
    LET a == IF method.hasArgs
             THEN _validateAndPopulateArgs(args, method.argSpec, previous)
             ELSE Validation(NoError, 0, args, {})
        p == IF method.hasPrevious
             THEN _validatePreviousResult(previous, method.previousResultSpec)
             ELSE NoError
    IN  IF a.error # NoError THEN a
        ELSE IF p # NoError THEN Validation(p, 0, <<>>, a.derived)
        ELSE a

\* the two validations of _runCall, in its order
validate(method, args, previous) ==
    LET p == IF method.hasPrevious
             THEN _validatePreviousResult(previous, method.previousResultSpec)
             ELSE NoError
    IN  IF p # NoError
        THEN Validation(p, 0, <<>>, {})
        ELSE IF method.hasArgs
        THEN _validateAndPopulateArgs(args, method.argSpec, previous)
        ELSE Validation(NoError, 0, args, {})

NoOutcome == Validation(NoError, 0, <<>>, {})

\* the completion callback that _runCall makes for the call
doneCallback == [t |-> "function", n |-> 2]

NoMethod == Method(FALSE, [type |-> "", instanceOf |-> NoClass], FALSE, <<>>)

\* no call validated yet
NotValidated ==
    [ran |-> FALSE, method |-> NoMethod, args |-> <<>>, previous |-> Undefined,
     out |-> NoOutcome, applied |-> FALSE, passed |-> <<>>, appliedTo |-> {},
     failed |-> {}]

\* the specs the methods declare for a position
ArgSpecs ==
    {ArgSpec(TRUE, Undefined, FALSE, "", NoClass),
     ArgSpec(TRUE, Undefined, FALSE, "number", NoClass),
     ArgSpec(FALSE, Num(1), FALSE, "number", NoClass),
     ArgSpec(FALSE, FnPrev, FALSE, "number", NoClass),
     ArgSpec(FALSE, Undefined, TRUE, "", NoClass),
     ArgSpec(FALSE, FnPrev, FALSE, "function", NoClass),
     ArgSpec(FALSE, FnFoo, FALSE, "", Foo),
     ArgSpec(FALSE, FnPrev, FALSE, "function", Foo)}

\* the arguments the calls supply
ArgValues == {Num(1), FnPrev, Obj(Foo), Undefined}

PreviousResults == {Num(2), Obj(Foo)}

PreviousResultSpecs ==
    {[type |-> "number", instanceOf |-> NoClass],
     [type |-> "", instanceOf |-> Foo]}

SeqsUpTo(S, n) == UNION {[1..k -> S] : k \in 0..n}

MethodsDeclared ==
    {Method(FALSE, NoMethod.previousResultSpec, TRUE, s) :
        s \in SeqsUpTo(ArgSpecs, MaxDeclared)}
    \cup {Method(TRUE, p, TRUE, s) :
            p \in PreviousResultSpecs, s \in SeqsUpTo(ArgSpecs, 1)}
    \cup {NoMethod}


\* null, for the parentChainInstanceId of a run without a parent
NullId == 0 - 1

\* no id given out, no memo made
NoIdMemo == [instanceId |-> NullId, parentChainInstanceId |-> NullId]

NoIds ==
    [idIndex |-> 0, memo |-> [n \in QueueNumbers |-> NoIdMemo], open |-> {},
     log |-> {}]

\* nothing logged, and no run started
NoTrace == [memo |-> NoMemo, log |-> <<>>]

(***************************************************************************)
(* The contexts of a run with blocks.  Every CallQueue makes its own       *)
(* CallContext when it is constructed; _setParent links the context to the *)
(* context of the parent queue.  Objects are numbered in the order they    *)
(* are constructed; 0 stands for null.                                     *)
(***************************************************************************)
\* the number of chain runs, of the chain and of its blocks' bodies
MaxRuns == 4

\* the queues of the chain as built, a clone per run of a body, and the runs
ObjectIds == 1..(MaxNesting + 1 + 2 * MaxRuns)

\* contextFactory.js: new CallContext(options), with what operations store
\* on it under one key
NewContext == [parent |-> 0, savedValue |-> Undefined]

\* new CallQueue(options); level is the nesting of the descriptors it holds,
\* by the queue whose call started it and stored what its operations saved
\* (history)
NewQueue(level, context) ==
    [level |-> level, _parentQueue |-> 0, _context |-> context,
     isStarted |-> FALSE, ended |-> FALSE, by |-> 0, stored |-> Undefined]

\* the CallQueue constructor: the queue is given a new context
construct(h, level) ==
    [h EXCEPT !.queues = Append(@, NewQueue(level, Len(h.contexts) + 1)),
              !.contexts = Append(@, NewContext)]

\* mutant: the queue is made a child, its context is not
Context_setParent_queueOnly(h, q, parent) ==
    [h EXCEPT !.queues[q]._parentQueue = parent]

\* CallQueue.prototype._setParent of CallQueue.js
Context_setParent(h, q, parent) ==
    [h EXCEPT !.queues[q]._parentQueue = parent,
              !.contexts[h.queues[q]._context].parent = h.queues[parent]._context]

\* CallQueue.prototype.clone of CallQueue.js: the new queue is the last one
Context_clone(h, q) ==
    LET h1 == construct(h, h.queues[q].level)
    IN  IF h.queues[q]._parentQueue # 0
        THEN Context_setParent(h1, Len(h1.queues), h.queues[q]._parentQueue)
        ELSE h1

\* _newChildQueue: the queue of a block's body, one level deeper
RECURSIVE BuiltHeap(_, _)
BuiltHeap(h, level) ==
    IF level > MaxNesting THEN h ELSE BuiltHeap(construct(h, level), level + 1)

\* the chain as built: queue l + 1 holds the descriptors nested l deep
NoHeap == BuiltHeap([queues |-> <<>>, contexts |-> <<>>], 0)

NotAgain == [called |-> FALSE, threw |-> FALSE, before |-> NoQueue, after |-> NoQueue]

\* the state after construction, and the call that is to be validated
InitCall(ids, descriptors, initialValue, toValidate) ==
    LET w0 == [queue |-> descriptors,
               qs |-> [id \in ids |-> IF id = "chain" THEN CallQueue ELSE NoQueue],
               stack |-> <<>>, cur |-> NoUser, root |-> NoRoot,
               pending |-> {}, obs |-> [id \in ids |-> ObsInit]]
        w == chain(w0, initialValue)
    IN  /\ queue = w.queue
        /\ qs = w.qs
        /\ stack = w.stack
        /\ cur = w.cur
        /\ root = w.root
        /\ pending = w.pending
        /\ obs = w.obs
        /\ given = initialValue
        /\ owner = <<>>
        /\ cloned = [id \in Clones |-> 0]
        /\ runOf = [r \in Runs |-> "none"]
        /\ facade = ChainOfQueues
        /\ builder = QueueOfQueues
        /\ blocks = NoBlocks
        /\ seed = [s \in Subs |-> None]
        /\ logged = BuiltQueues
        /\ events = {}
        /\ again = NotAgain
        /\ validated = toValidate
        /\ trace = NoTrace
        /\ issued = NoIds
        /\ heap = NoHeap

InitAs(ids, descriptors, initialValue) ==
    InitCall(ids, descriptors, initialValue, NotValidated)

InitOn(ids, initialValue) == InitAs(ids, <<>>, initialValue)

InitWith(initialValue) == InitOn({"chain", "run"}, initialValue)

\* what the engine's steps leave as it is, but for the history of clones
Built == <<given, facade, builder, blocks, seed, logged, events, Aux>>

\* myChain() and myChain(value)
Init == \E initialValue \in {Undefined, R(0)} : InitWith(initialValue)

\* Chain.prototype._addToChain: chain.<method>(...)
AddToChain ==
    /\ Idle
    /\ Len(queue) < MaxQueue
    /\ \E methodName \in Methods :
           Install(add(FromMain(W), "chain", methodName,
                       ~interceptErrors(methodName)))

\* Chain.prototype.run(initialResult, cb) and run(cb)
Run ==
    /\ Idle
    /\ ~qs["chain"].isStarted
    /\ ~qs["run"].exists
    /\ \E initialResult \in {R(0)} :
           Install(start(clone(FromMain(W), "chain", "run"), "run",
                         initialResult, TRUE))

\* what user code passes to a completion callback
Outcome(oc, i) ==
    CASE oc = "ok" -> Args(Null, R(i))
      [] oc = "err" -> Args(E(i), R(i))

Outcomes == {"ok", "err"}

Completing == {"op", "recoverCallback", "transformCallback"}

\* the running operation (or recover/transform callback) calls back at once
UserDone ==
    /\ cur.k \in Completing
    /\ \E oc \in Outcomes :
           LET a == Outcome(oc, cur.i)
           IN  Install(done(W, cur.q, cur.i, a.e, a.r))

\* it returns without calling back, having scheduled a callback
UserDefer ==
    /\ cur.k \in Completing
    /\ Install([W EXCEPT !.pending = @ \cup {[q |-> cur.q, i |-> cur.i]},
                         !.cur = NoUser])

\* it throws before calling back (so does a tap callback)
UserThrow ==
    /\ cur.k \in Completing \cup {"tapCallback"}
    /\ Install(raise([W EXCEPT !.obs[cur.q].via[cur.i] = "catch"], X(cur.i)))

\* the tap callback returns
TapReturn ==
    /\ cur.k = "tapCallback"
    /\ Install(tapSkip(W, cur.q, cur.i))

\* the terminal callback returns
WhenDoneReturn ==
    /\ cur.k = "whenDone"
    /\ Install([W EXCEPT !.cur = NoUser])

\* the terminal callback throws
WhenDoneThrow ==
    /\ cur.k = "whenDone"
    /\ Install(raise(W, X(0)))

\* the scheduled callback of a pending operation runs and calls back
AsyncDone ==
    /\ Idle
    /\ \E p \in pending : \E oc \in Outcomes :
           LET a == Outcome(oc, p.i)
               w == [W EXCEPT !.pending = @ \ {p},
                              !.root = [k |-> "domain", q |-> p.q, i |-> p.i]]
           IN  Install(done(w, p.q, p.i, a.e, a.r))

\* the scheduled callback throws instead of calling back
AsyncThrow ==
    /\ Idle
    /\ \E p \in pending :
           LET w == [W EXCEPT !.pending = @ \ {p},
                              !.root = [k |-> "domain", q |-> p.q, i |-> p.i],
                              !.obs[p.q].via[p.i] = "domain"]
           IN  Install(raise(w, X(p.i)))

Next ==
    \/ AddToChain
    \/ Run
    \/ UserDone
    \/ UserDefer
    \/ UserThrow
    \/ TapReturn
    \/ WhenDoneReturn
    \/ WhenDoneThrow
    \/ AsyncDone
    \/ AsyncThrow

Spec == Init /\ [][Next]_vars

(***************************************************************************)
(* Two runs of one chain definition.  The operations are deterministic     *)
(* functions of the state they find (like plus and times in the tests), so *)
(* what a run delivers shows whether the other run touched its state; when *)
(* an operation calls back is still free.                                  *)
(***************************************************************************)
\* what the method of call i calls back with, given the context it runs on
Calc(m, c, i) ==
    CASE m = "op" ->
             LET n == c.currentResult.n + i
             IN  IF n % 3 = 0 THEN Args(E(n), Undefined) ELSE Args(Null, R(n))
      [] m = "recover" -> Args(Null, R(c.currentError.n + 1))
      [] m = "transform" ->
             IF hasError(c) THEN Args(Null, R(c.currentError.n + 2))
             ELSE Args(Null, R(c.currentResult.n + 2))

\* myChainImpl.run(5, cb) ... myChainImpl.run(2, cb)
InitialOf(id) == IF id = "run" THEN R(1) ELSE R(2)

\* the chain is defined before it is run
Define == ~qs["run"].exists /\ AddToChain

RunFirst ==
    /\ Idle
    /\ ~qs["chain"].isStarted
    /\ ~qs["run"].exists
    /\ Install(start(clone(FromMain(W), "chain", "run"), "run",
                     InitialOf("run"), TRUE))

RunSecond ==
    /\ Idle
    /\ qs["run"].exists
    /\ ~qs["run2"].exists
    /\ Install(start(clone(FromMain(W), "chain", "run2"), "run2",
                     InitialOf("run2"), TRUE))

CalcDone ==
    /\ cur.k \in Completing
    /\ LET a == Calc(queue[cur.i].method, qs[cur.q].context, cur.i)
       IN  Install(done(W, cur.q, cur.i, a.e, a.r))

CalcAsync ==
    /\ Idle
    /\ \E p \in pending :
           LET a == Calc(queue[p.i].method, qs[p.q].context, p.i)
               w == [W EXCEPT !.pending = @ \ {p},
                              !.root = [k |-> "domain", q |-> p.q, i |-> p.i]]
           IN  Install(done(w, p.q, p.i, a.e, a.r))

NextRuns ==
    \/ Define
    \/ RunFirst
    \/ RunSecond
    \/ CalcDone
    \/ UserDefer
    \/ CalcAsync
    \/ TapReturn
    \/ WhenDoneReturn

SpecRuns == InitOn({"chain"} \cup Runs, Undefined) /\ [][NextRuns]_vars

(***************************************************************************)
(* Clones of a chain.  Every CallQueue that clone() makes is constructed   *)
(* with queue: this._queue, the array of the queue it is cloned from, so   *)
(* the chains a, a.clone() and every run of them append to and read from   *)
(* the one array.                                                          *)
(***************************************************************************)
\* this._queue of the CallQueue of chain id
_queue(id) == queue

\* Chain.prototype.clone
CloneChain ==
    /\ Idle
    /\ \E new \in Clones :
           /\ ~qs[new].exists
           /\ Commit(clone(FromMain(W), "chain", new))
           /\ cloned' = [cloned EXCEPT ![new] = Len(_queue("chain"))]
           /\ UNCHANGED <<owner, runOf, Built>>

\* chain.<method>(...) on the first chain or on a clone of it
AppendTo ==
    /\ Idle
    /\ ~qs["run"].exists
    /\ Len(queue) < MaxQueue
    /\ \E id \in {"chain"} \cup Clones : \E methodName \in {"op"} :
           /\ qs[id].exists
           /\ Commit(add(FromMain(W), id, methodName,
                         ~interceptErrors(methodName)))
           /\ owner' = Append(owner, id)
           /\ UNCHANGED <<cloned, runOf, Built>>

\* chain.run(1, cb) on the first chain or on a clone of it
RunChain ==
    /\ Idle
    /\ \E id \in {"chain"} \cup Clones : \E r \in Runs :
           /\ qs[id].exists
           /\ ~qs[r].exists
           /\ r = "run2" => qs["run"].exists
           /\ Commit(start(clone(FromMain(W), id, r), r, R(1), TRUE))
           /\ runOf' = [runOf EXCEPT ![r] = id]
           /\ UNCHANGED <<owner, cloned, Built>>

NextClone ==
    \/ CloneChain
    \/ AppendTo
    \/ RunChain
    \/ CalcDone
    \/ UserDefer
    \/ CalcAsync
    \/ WhenDoneReturn

SpecClone == InitOn({"chain"} \cup Clones \cup Runs, Undefined) /\ [][NextClone]_vars

(***************************************************************************)
(* Building a chain with blocks.  A throw of a block method is a           *)
(* programming error that ends the building.                               *)
(***************************************************************************)
Engine == <<queue, qs, stack, cur, root, pending, obs, given, owner, cloned, runOf, seed, logged, events, Aux>>

\* chain.<method>(...)
BuildCall ==
    /\ blocks.n < MaxBuild
    /\ \E method \in BlockMethods :
           LET n == blocks.n + 1
               a == _addToChain(facade, method, n)
               b == CallQueue_add(builder, method, n)
               open == blocks.open
               mismatch == method.end # "none"
                           /\ (open = <<>> \/ open[Len(open)] # method.end)
           IN  /\ facade' = a.c
               /\ builder' = b.q
               /\ blocks' =
                      [open |-> IF a.threw \/ b.threw THEN open
                                ELSE IF method.begin # "none"
                                THEN Append(open, method.begin)
                                ELSE IF method.end # "none"
                                THEN SubSeq(open, 1, Len(open) - 1)
                                ELSE open,
                       n |-> n,
                       thrown |-> a.threw \/ b.threw,
                       last |-> [call |-> method.name, mismatch |-> mismatch,
                                 wasOpen |-> open # <<>>,
                                 threwChain |-> a.threw, threwQueue |-> b.threw,
                                 cloned |-> FALSE, started |-> FALSE]]
    /\ UNCHANGED Engine

\* the calls that build a chain, up to the first that throws
Build ==
    /\ ~blocks.thrown
    /\ BuildCall

\* chain.clone() and chain.run(initialResult, cb)
CloneOrRun ==
    /\ ~blocks.thrown
    /\ blocks.last.call \notin {"clone", "run"}
    /\ \E call \in {"clone", "run"} :
           LET r == IF call = "clone" THEN Chain_clone(facade) ELSE Chain_run(facade)
           IN  blocks' = [blocks EXCEPT
                   !.thrown = r.threw,
                   !.last = [call |-> call, mismatch |-> FALSE,
                             wasOpen |-> blocks.open # <<>>,
                             threwChain |-> r.threw, threwQueue |-> FALSE,
                             cloned |-> r.cloned, started |-> r.started]]
    /\ UNCHANGED <<Engine, facade, builder>>

NextBlocks == Build \/ CloneOrRun

\* myChain(value): the constructor starts the chain's queue
StartBuilt ==
    /\ blocks.n = 0
    /\ ~builder._isStarted
    /\ builder' = Built_maybeProcessNext([builder EXCEPT !._isStarted = TRUE])
    /\ UNCHANGED <<Engine, facade, blocks>>

NextRouted == StartBuilt \/ Build

\* a chain built with blocks, on a queue that is started or not
SpecRouted == InitWith(Undefined) /\ [][NextRouted]_vars

SpecBlocks == InitWith(Undefined) /\ [][NextBlocks]_vars

\* the caller catches the error of a block method and goes on building
BuildOn ==
    /\ blocks.n > 0
    /\ BuildCall

NextCaught == Build \/ BuildOn

SpecCaught == InitWith(Undefined) /\ [][NextCaught]_vars

(***************************************************************************)
(* Running a chain with a block.  The chain is built: the descriptor of    *)
(* the block-closing call holds the body as its subqueue.  The closing     *)
(* operation is written like endMap and $endWithSubchain of the tests: it  *)
(* runs the sub-chain it is given, one run after the other, and calls back *)
(* from the terminal callback of the last run with what that run gave.     *)
(***************************************************************************)
BlockDescriptor(m, subqueue) ==
    [method |-> m, skipOnError |-> ~interceptErrors(m),
     args |-> <<"declared">>, subqueue |-> subqueue]

\* the bodies of a block: one or two calls
Bodies ==
    {<<BlockDescriptor(m, <<>>)>> : m \in Methods}
    \cup {<<BlockDescriptor(m1, <<>>), BlockDescriptor(m2, <<>>)>> :
             m1 \in Methods, m2 \in Methods}

\* chains with one block, and a call before or after it
Nested ==
    {<<BlockDescriptor("$begin", <<>>), BlockDescriptor("$end", body),
       BlockDescriptor(m, <<>>)>> : body \in Bodies, m \in Methods}
    \cup {<<BlockDescriptor(m, <<>>), BlockDescriptor("$begin", <<>>),
             BlockDescriptor("$end", body)>> : body \in Bodies, m \in Methods}

\* mutant: the sub-chain is put behind the declared arguments
argsOf_subchainLast(callDescriptor) ==
    IF callDescriptor.subqueue # <<>>
    THEN callDescriptor.args \o <<"subchain">>
    ELSE callDescriptor.args

\* _runCall: args = [subchain].concat(callDescriptor.args)
argsOf(callDescriptor) ==
    IF callDescriptor.subqueue # <<>>
    THEN <<"subchain">> \o callDescriptor.args
    ELSE callDescriptor.args

\* the descriptor of the block-closing call
closing == CHOOSE i \in 1..Len(queue) : queue[i].method = "$end"

\* the world as a queue sees it: a run of the body reads the subqueue's array
View(id) ==
    IF id \in Subs THEN [W EXCEPT !.queue = queue[closing].subqueue] ELSE W

Back(w) == [w EXCEPT !.queue = queue]

\* the code that runs is that of a method other than the block markers
Ordinary == cur.i > 0 /\ View(cur.q).queue[cur.i].method \in Methods

\* chain.run(initialResult, cb)
RunNested ==
    /\ Idle
    /\ ~qs["run"].exists
    /\ \E initialResult \in {R(1), R(2)} :
           Install(start(clone(FromMain(W), "chain", "run"), "run",
                         initialResult, TRUE))

\* $begin...: this.skip(done)
BeginSkip ==
    /\ cur.k = "op"
    /\ cur.q = "run"
    /\ queue[cur.i].method = "$begin"
    /\ LET a == skip(qs["run"].context)
       IN  Install(done(W, "run", cur.i, a.e, a.r))

\* the closing operation was handed the sub-chain, or is in the terminal
\* callback of a run of it
HoldsSubchain ==
    \/ /\ cur.k = "op"
       /\ cur.q = "run"
       /\ queue[cur.i].method = "$end"
       /\ Head(argsOf(queue[cur.i])) = "subchain"
    \/ cur.k = "whenDone" /\ cur.q \in Subs

\* subchain.run(nextResult, function (err, result) { ... }): Chain.run on
\* the sub-chain that _runCall made of a clone of the subqueue
SubRun ==
    /\ HoldsSubchain
    /\ \E new \in Subs :
           /\ ~qs[new].exists
           /\ new = "sub2" => qs["sub1"].exists
           /\ LET source == previousResult(qs["run"].context)
                  nextResult == IF new = "sub1" THEN source ELSE R(source.n + 1)
                  w == clone(clone(View(new), "run", new), new, new)
              IN  /\ Commit(Back(start(w, new, nextResult, TRUE)))
                  /\ seed' = [seed EXCEPT ![new] = nextResult]
    /\ UNCHANGED <<given, owner, cloned, runOf, facade, builder, blocks, logged, events, Aux>>

\* the closing operation calls done without running the sub-chain
ClosingEmpty ==
    /\ cur.k = "op"
    /\ cur.q = "run"
    /\ queue[cur.i].method = "$end"
    /\ Install(done(W, "run", cur.i, Null, R(0)))

\* the terminal callback of a run of the body calls the closing operation's
\* done with what it was given
ClosingDone ==
    /\ cur.k = "whenDone"
    /\ cur.q \in Subs
    /\ LET given_ == obs[cur.q].term[Len(obs[cur.q].term)]
       IN  Install(done(W, "run", closing, given_.e, given_.r))

NestedDone ==
    /\ cur.k \in Completing
    /\ Ordinary
    /\ LET v == View(cur.q)
           a == Calc(v.queue[cur.i].method, qs[cur.q].context, cur.i)
       IN  Install(Back(done(v, cur.q, cur.i, a.e, a.r)))

NestedDefer == Ordinary /\ UserDefer

NestedAsync ==
    /\ Idle
    /\ \E p \in pending :
           LET v == View(p.q)
               a == Calc(v.queue[p.i].method, qs[p.q].context, p.i)
               w == [v EXCEPT !.pending = @ \ {p},
                              !.root = [k |-> "domain", q |-> p.q, i |-> p.i]]
           IN  Install(Back(done(w, p.q, p.i, a.e, a.r)))

NestedTapReturn ==
    /\ cur.k = "tapCallback"
    /\ Install(Back(tapSkip(View(cur.q), cur.q, cur.i)))

\* the terminal callback of the chain's run returns
NestedReturn == cur.q = "run" /\ WhenDoneReturn

NextNested ==
    \/ RunNested
    \/ BeginSkip
    \/ SubRun
    \/ ClosingEmpty
    \/ ClosingDone
    \/ NestedDone
    \/ NestedDefer
    \/ NestedAsync
    \/ NestedTapReturn
    \/ NestedReturn

InitNested ==
    \E descriptors \in Nested :
        InitAs({"chain", "run"} \cup Subs, descriptors, Undefined)

SpecNested == InitNested /\ [][NextNested]_vars

(***************************************************************************)
(* A logged run of the chain built with nested blocks.                     *)
(***************************************************************************)
Unlogged == <<queue, qs, stack, cur, root, pending, obs, given, owner, cloned, runOf,
              facade, builder, blocks, seed, Aux>>

Running(n) ==
    /\ logged[n].exists
    /\ logged[n]._chainStartMemo.started
    /\ ~logged[n].ended

Unused == {n \in QueueNumbers : ~logged[n].exists}

NoneStarted == \A n \in QueueNumbers : ~logged[n]._chainStartMemo.started

\* myChain(value): the chain's own queue is started
StartChain ==
    /\ NoneStarted
    /\ LET q == Logged_start(logged, logged[1])
       IN  /\ logged' = [logged EXCEPT ![1] = q]
           /\ events' = events \cup {Event("chainStart", 1, q, 0)}
    /\ UNCHANGED Unlogged

\* myChain()....run(value, cb): a clone of the chain's queue is started
StartRun ==
    /\ NoneStarted
    /\ \E n \in Unused :
           /\ \A m \in Unused : n <= m
           /\ LET q == Logged_start(logged, Logged_clone(logged[1]))
              IN  /\ logged' = [logged EXCEPT ![n] = q]
                  /\ events' = events \cup {Event("chainStart", n, q, 0)}
    /\ UNCHANGED Unlogged

\* _runCall of a call other than end: logger.callStart
CallStart ==
    /\ \E r \in QueueNumbers :
           /\ Running(r)
           /\ events' = events \cup
                  {Event("callStart", r, logged[r], logged[r].truth)}
    /\ UNCHANGED <<Unlogged, logged>>

\* _runCall of the descriptor that closes a block: the subqueue is cloned
\* and given the running queue as parent, and the closing operation runs
\* the sub-chain (Chain.prototype.run: a clone of that queue is started)
RunBlock ==
    /\ \E r \in QueueNumbers : \E n \in Unused :
           /\ Running(r)
           /\ logged[r].level < MaxNesting
           /\ \A m \in Unused : n <= m
           /\ LET subqueue == _setParent(Logged_clone(logged[logged[r].level + 2]), r)
                  q == [Logged_start(logged, Logged_clone(subqueue))
                            EXCEPT !.truth = logged[r].truth + 1]
              IN  /\ logged' = [logged EXCEPT ![n] = q]
                  /\ events' = events \cup
                         {Event("chainStart", n, q, logged[r].truth + 1)}
    /\ UNCHANGED Unlogged

\* this.newChain(value) in an operation: _createChain starts a child queue;
\* this.newChain()....run(value, cb) starts a clone of it
NewChain ==
    /\ \E r \in QueueNumbers : \E n \in Unused : \E run \in BOOLEAN :
           /\ Running(r)
           /\ \A m \in Unused : n <= m
           /\ LET child == _newChildQueue(MaxNesting, r)
                  q == [Logged_start(logged, IF run THEN Logged_clone(child) ELSE child)
                            EXCEPT !.truth = logged[r].truth + 1]
              IN  /\ logged' = [logged EXCEPT ![n] = q]
                  /\ events' = events \cup
                         {Event("chainStart", n, q, logged[r].truth + 1)}
    /\ UNCHANGED Unlogged

\* the queue is drained (or runs its end call): logger.chainEnd
ChainEnd ==
    /\ \E r \in QueueNumbers :
           /\ Running(r)
           /\ \A n \in QueueNumbers :
                  (Running(n) /\ n # r) => logged[n]._parentQueue # r
           /\ logged' = [logged EXCEPT ![r].ended = TRUE]
           /\ events' = events \cup
                  {Event("chainEnd", r, logged[r], logged[r].truth)}
    /\ UNCHANGED Unlogged

NextLogged ==
    \/ StartChain
    \/ StartRun
    \/ CallStart
    \/ RunBlock
    \/ NewChain
    \/ ChainEnd

SpecLogged == InitWith(Undefined) /\ [][NextLogged]_vars

(***************************************************************************)
(* A second start of a queue.  CallQueue.prototype.start is the same code  *)
(* whether or not the queue was started: it has no guard and no throw.     *)
(***************************************************************************)
\* the outcome of callQueue.start(initialResult, cb): the code has no path
\* that throws
startThrows(q) == FALSE

\* another caller calls start(initialResult, cb) or start(initialResult) on
\* the queue of a run in progress
StartAgain ==
    /\ Idle
    /\ ~again.called
    /\ qs["run"].exists /\ qs["run"].isStarted
    /\ \E cb \in BOOLEAN :
           LET w == Settle(start(FromMain(W), "run", R(9), cb))
           IN  /\ Commit(start(FromMain(W), "run", R(9), cb))
               /\ again' = [called |-> TRUE, threw |-> startThrows(qs["run"]),
                            before |-> qs["run"], after |-> w.qs["run"]]
    /\ UNCHANGED <<given, owner, cloned, runOf, facade, builder, blocks, seed,
                   logged, events, validated, trace, issued, Rest>>

NextRestart == Next \/ StartAgain

SpecRestart == InitWith(Undefined) /\ [][NextRestart]_vars


\* a call of a method is about to be run: its method, the arguments the
\* call supplied and the result of the call before it
InitArgs ==
    \E method \in MethodsDeclared, previous \in PreviousResults,
       args \in SeqsUpTo(ArgValues, MaxDeclared + 1) :
        InitCall({"chain"}, <<>>, Undefined,
                 [NotValidated EXCEPT !.method = method, !.args = args,
                                      !.previous = previous])

\* _runCall up to method.apply(this._context, args.concat(done))
Validate ==
    /\ ~validated.ran
    /\ LET out == validate(validated.method, validated.args, validated.previous)
       IN  validated' = [validated EXCEPT !.ran = TRUE, !.out = out,
                                          !.applied = (out.error = NoError),
                                          !.passed = IF out.error = NoError
                                                     THEN Append(out.args, doneCallback)
                                                     ELSE <<>>]
    /\ UNCHANGED <<queue, qs, stack, cur, root, pending, obs, given, owner, cloned,
                   runOf, facade, builder, blocks, seed, logged, events, again, trace,
                   issued, Rest>>

NextArgs == Validate

SpecArgs == InitArgs /\ [][NextArgs]_vars

\* the error a failed validation of call i throws
ValidationFailure(i) == [t |-> "V", n |-> i]

\* the methods the name "op" stands for in a run with validation, and the
\* arguments its calls supply
ValidatedMethods ==
    {Method(FALSE, NoMethod.previousResultSpec, TRUE,
            <<ArgSpec(TRUE, Undefined, FALSE, "", NoClass)>>),
     Method(FALSE, NoMethod.previousResultSpec, TRUE,
            <<ArgSpec(FALSE, FnPrev, FALSE, "number", NoClass)>>),
     Method(TRUE, [type |-> "number", instanceOf |-> NoClass], FALSE, <<>>)}

InitValid ==
    \E method \in ValidatedMethods, args \in SeqsUpTo({Num(1)}, 1) :
        InitCall({"chain"}, <<>>, Num(2),
                 [NotValidated EXCEPT !.method = method, !.args = args])

\* method.apply was reached for the operation that is running
Applied == cur.k = "op" => [q |-> cur.q, i |-> cur.i] \in validated.appliedTo

\* mutant: a failed validation is logged and the operation is applied
validationThrows_never(out) == FALSE

validationThrows(out) == out.error # NoError

\* _runCall from the validations on: a throw leaves the try block for
\* done(e, undefined), otherwise method.apply is reached
ValidateCall ==
    /\ cur.k = "op"
    /\ ~Applied
    /\ LET previous == previousResult(qs[cur.q].context)
           out == validate(validated.method, validated.args, previous)
           v == [validated EXCEPT !.ran = TRUE, !.previous = previous, !.out = out,
                                  !.failed = IF out.error # NoError
                                             THEN @ \cup {[q |-> cur.q, i |-> cur.i]}
                                             ELSE @]
       IN  IF validationThrows(out)
           THEN /\ Commit(raise([W EXCEPT !.obs[cur.q].via[cur.i] = "validation"],
                                ValidationFailure(cur.i)))
                /\ validated' = [v EXCEPT !.applied = FALSE, !.passed = <<>>]
           ELSE /\ UNCHANGED <<queue, qs, stack, cur, root, pending, obs>>
                /\ validated' =
                       [v EXCEPT !.applied = TRUE,
                                 !.passed = Append(out.args, doneCallback),
                                 !.appliedTo = @ \cup {[q |-> cur.q, i |-> cur.i]}]
    /\ UNCHANGED <<given, owner, cloned, runOf, facade, builder, blocks, seed,
                   logged, events, again, trace, issued, Rest>>

NextValid ==
    \/ AddToChain
    \/ ValidateCall
    \/ Applied /\ UserDone
    \/ Applied /\ UserDefer
    \/ Applied /\ UserThrow
    \/ TapReturn
    \/ AsyncDone

SpecValid == InitValid /\ [][NextValid]_vars

(***************************************************************************)
(* The trace of a logged run.  The queue that run() starts logs through    *)
(* the Logger: chainStart in start, callStart in _runCall before the       *)
(* method is applied, callEnd in the done closure of _runCall, callSkipped *)
(* where a call is bypassed, chainEnd before the terminal callback.        *)
(***************************************************************************)
LogEvent(type, memo, i, methodName) ==
    [type |-> type, depth |-> memo.depth, call |-> i, methodName |-> methodName]

\* the memo of the parent queue: none for the run of a chain, and that of a
\* started queue for the run of a block's body
ParentMemos == {NoMemo, [started |-> TRUE, depth |-> MaxNesting - 1]}

\* mutant: the domain's error handler goes through the done closure
logsCallEnd_always(via) == TRUE

\* the completion goes through the done closure of _runCall (and not from
\* the domain's error handler straight to _callDone)
logsCallEnd(via) == via # "domain"

\* mutant: a bypassed call is logged like a call that runs
skippedEvents_asCall(memo, i, methodName) ==
    <<LogEvent("callStart", memo, i, methodName),
      LogEvent("callEnd", memo, i, methodName)>>

\* _maybeProcessNext, the skip branch: logger.callSkipped
skippedEvents(memo, i, methodName) ==
    <<LogEvent("callSkipped", memo, i, methodName)>>

\* what call i of the queue logged in a step from the world w0 to w1
CallEvents(memo, w0, w1, id, i) ==
    LET s0 == w0.obs[id].status[i]
        s1 == w1.obs[id].status[i]
        methodName == w1.queue[i].method
        \* a call of the method named end logs chainEnd, and has no
        \* callStartMemo for the done closure to log callEnd with
        callStart == IF methodName = "end"
                     THEN <<LogEvent("chainEnd", memo, 0, "none")>>
                     ELSE <<LogEvent("callStart", memo, i, methodName)>>
        callEnd == IF logsCallEnd(w1.obs[id].via[i]) /\ methodName # "end"
                   THEN <<LogEvent("callEnd", memo, i, methodName)>>
                   ELSE <<>>
    IN  CASE s0 = "none" /\ s1 = "run" -> callStart
          [] s0 = "none" /\ s1 = "done" -> callStart \o callEnd
          [] s0 = "none" /\ s1 = "skipped" -> skippedEvents(memo, i, methodName)
          [] s0 = "run" /\ s1 = "done" -> callEnd
          [] OTHER -> <<>>

RECURSIVE CallsEvents(_, _, _, _, _)
\* the calls are gone through in their order
CallsEvents(memo, w0, w1, id, i) ==
    IF i > Len(w1.queue) THEN <<>>
    ELSE CallEvents(memo, w0, w1, id, i) \o CallsEvents(memo, w0, w1, id, i + 1)

\* what the queue logged in the step: chainStart when it was started, the
\* events of its calls, and chainEnd each time the terminal callback is called
Emitted(memo, w0, w1, id) ==
    (IF ~w0.qs[id].isStarted /\ w1.qs[id].isStarted
     THEN <<LogEvent("chainStart", memo, 0, "none")>> ELSE <<>>)
    \o CallsEvents(memo, w0, w1, id, 1)
    \o [k \in 1..(Len(w1.obs[id].term) - Len(w0.obs[id].term)) |->
            LogEvent("chainEnd", memo, 0, "none")]

\* a step of the engine, and what the run logs in it
Logs(w0, memo) ==
    \E w \in {Settle(w0)} :
        /\ queue' = w.queue
        /\ qs' = w.qs
        /\ stack' = w.stack
        /\ cur' = w.cur
        /\ root' = w.root
        /\ pending' = w.pending
        /\ obs' = w.obs
        /\ trace' = [memo |-> memo,
                     log |-> trace.log \o Emitted(memo, W, w, "chain")
                                      \o Emitted(memo, W, w, "run")]
        /\ UNCHANGED <<given, owner, cloned, runOf, facade, builder, blocks, seed,
                       logged, events, again, validated, issued, Rest>>

LogAdd ==
    /\ Idle
    /\ Len(queue) < MaxQueue
    /\ \E methodName \in Methods :
           Logs(add(FromMain(W), "chain", methodName, ~interceptErrors(methodName)),
                trace.memo)

\* run(initialResult, cb): start logs chainStart and keeps the memo
LogRun ==
    /\ Idle
    /\ ~qs["chain"].isStarted
    /\ ~qs["run"].exists
    /\ \E parent \in ParentMemos :
           Logs(start(clone(FromMain(W), "chain", "run"), "run", R(0), TRUE),
                chainStart(parent))

LogDone ==
    /\ cur.k \in Completing
    /\ \E oc \in Outcomes :
           LET a == Outcome(oc, cur.i)
           IN  Logs(done(W, cur.q, cur.i, a.e, a.r), trace.memo)

LogDefer ==
    /\ cur.k \in Completing
    /\ Logs([W EXCEPT !.pending = @ \cup {[q |-> cur.q, i |-> cur.i]},
                      !.cur = NoUser], trace.memo)

LogThrow ==
    /\ cur.k \in Completing \cup {"tapCallback"}
    /\ Logs(raise([W EXCEPT !.obs[cur.q].via[cur.i] = "catch"], X(cur.i)),
            trace.memo)

LogTapReturn ==
    /\ cur.k = "tapCallback"
    /\ Logs(tapSkip(W, cur.q, cur.i), trace.memo)

LogWhenDoneReturn ==
    /\ cur.k = "whenDone"
    /\ Logs([W EXCEPT !.cur = NoUser], trace.memo)

LogAsyncDone ==
    /\ Idle
    /\ \E p \in pending : \E oc \in Outcomes :
           LET a == Outcome(oc, p.i)
               w == [W EXCEPT !.pending = @ \ {p},
                              !.root = [k |-> "domain", q |-> p.q, i |-> p.i]]
           IN  Logs(done(w, p.q, p.i, a.e, a.r), trace.memo)

LogAsyncThrow ==
    /\ Idle
    /\ \E p \in pending :
           LET w == [W EXCEPT !.pending = @ \ {p},
                              !.root = [k |-> "domain", q |-> p.q, i |-> p.i],
                              !.obs[p.q].via[p.i] = "domain"]
           IN  Logs(raise(w, X(p.i)), trace.memo)

NextTrace ==
    \/ LogAdd
    \/ LogRun
    \/ LogDone
    \/ LogDefer
    \/ LogThrow
    \/ LogTapReturn
    \/ LogWhenDoneReturn
    \/ LogAsyncDone
    \/ LogAsyncThrow

\* (the terminal callback returns: what a throw from it does is Spec's matter)
SpecTrace == InitWith(Undefined) /\ [][NextTrace]_vars

(***************************************************************************)
(* Logged chains with end calls, run with a terminal callback or started   *)
(* at once without one.                                                    *)
(***************************************************************************)
\* myChain(value): the chain's own queue is started, with no terminal callback
LogStartChain ==
    /\ Idle
    /\ queue = <<>>
    /\ ~qs["chain"].isStarted
    /\ ~qs["run"].exists
    /\ Logs(start(FromMain(W), "chain", R(0), FALSE), chainStart(NoMemo))

\* chain.end(endCallback)
LogAddEnd ==
    /\ Idle
    /\ Len(queue) < MaxQueue
    /\ Logs(add(FromMain(W), "chain", "end", ~interceptErrors("end")), trace.memo)

\* the end callback returns
LogEndReturn ==
    /\ cur.k = "endCallback"
    /\ Logs([W EXCEPT !.cur = NoUser], trace.memo)

NextEnds ==
    \/ LogStartChain
    \/ LogAdd
    \/ LogAddEnd
    \/ LogRun
    \/ LogDone
    \/ LogDefer
    \/ LogTapReturn
    \/ LogEndReturn
    \/ LogWhenDoneReturn
    \/ LogAsyncDone

SpecEnds == InitWith(Undefined) /\ [][NextEnds]_vars

(***************************************************************************)
(* The ids of the events.  The Logger gives every chain run and every     *)
(* call an instanceId from one index; the memo a start returns carries it  *)
(* to the end event, and the chain-start memo of the queue to the events   *)
(* of its calls and to the chain-start of the runs it starts.              *)
(***************************************************************************)
\* mutant: the index is not counted up
_createId_same(idIndex) == [id |-> idIndex, idIndex |-> idIndex]

\* Logger.prototype._createId('chain'): this.idIndex[prefix]++
_createId(idIndex) == [id |-> idIndex, idIndex |-> idIndex + 1]

\* parentChainStartMemo && parentChainStartMemo.instanceId
parentId(qq, memo, q) ==
    IF q._parentQueue # 0 /\ qq[q._parentQueue]._chainStartMemo.started
    THEN memo[q._parentQueue].instanceId
    ELSE NullId

\* the details of an event: instanceId, chainInstanceId and
\* parentChainInstanceId where it has them; and (history) the number of the
\* event, the queue that logged it, the queue whose operation started the
\* run (0 for none) and the number of the start event it ends
IdEvent(type, instanceId, chainInstanceId, parentChainInstanceId, n, starter, of) ==
    [type |-> type, instanceId |-> instanceId, chainInstanceId |-> chainInstanceId,
     parentChainInstanceId |-> parentChainInstanceId,
     number |-> Cardinality(issued.log) + 1, queue |-> n, starter |-> starter, of |-> of]

\* CallQueue.prototype.start: logger.chainStart for the queue q kept as
\* number n, started by an operation of the run r
StartWithId(n, q, r) ==
    LET c == _createId(issued.idIndex)
        started == Logged_start(logged, q)
        memo == [instanceId |-> c.id,
                 parentChainInstanceId |-> parentId(logged, issued.memo, q)]
    IN  /\ issued.idIndex < MaxIds
        /\ logged' = [logged EXCEPT ![n] =
                          [started EXCEPT !.truth = IF r = 0 THEN 0
                                                    ELSE logged[r].truth + 1]]
        /\ issued' = [issued EXCEPT
                      !.idIndex = c.idIndex,
                      !.memo[n] = memo,
                      !.log = @ \cup {IdEvent("chainStart", memo.instanceId, NullId,
                                              memo.parentChainInstanceId, n, r, 0)}]

Unnumbered ==
    <<queue, qs, stack, cur, root, pending, obs, given, owner, cloned, runOf,
      facade, builder, blocks, seed, events, again, validated, trace, Rest>>

LeastUnused(n) == n \in Unused /\ \A m \in Unused : n <= m

\* the run whose calls are being processed: the operations complete before
\* they return, so it is the run started last of those that have not ended
Active(r) == Running(r) /\ \A n \in QueueNumbers : Running(n) => n <= r

OpenIn(r) == {e \in issued.open : e.queue = r}

\* myChain()....run(value, cb): a clone of the chain's queue is started
IdStartRun ==
    /\ NoneStarted
    /\ \E n \in Unused : LeastUnused(n) /\ StartWithId(n, Logged_clone(logged[1]), 0)
    /\ UNCHANGED Unnumbered

\* _runCall: logger.callStart, which returns the call's memo
IdCallStart ==
    /\ issued.idIndex < MaxIds
    /\ \E r \in QueueNumbers :
           /\ Active(r)
           /\ OpenIn(r) = {}
           /\ LET c == _createId(issued.idIndex)
                  e == IdEvent("callStart", c.id, issued.memo[r].instanceId, NullId,
                               r, 0, 0)
              IN  issued' = [issued EXCEPT !.idIndex = c.idIndex,
                                           !.open = @ \cup {e},
                                           !.log = @ \cup {e}]
    /\ UNCHANGED <<Unnumbered, logged>>

\* the done closure of _runCall: logger.callEnd(callStartMemo, ...)
IdCallEnd ==
    /\ \E r \in QueueNumbers : \E callStartMemo \in OpenIn(r) :
           /\ Active(r)
           /\ issued' = [issued EXCEPT
                            !.open = @ \ {callStartMemo},
                            !.log = @ \cup {IdEvent("callEnd", callStartMemo.instanceId,
                                                    callStartMemo.chainInstanceId,
                                                    NullId, r, 0,
                                                    callStartMemo.number)}]
    /\ UNCHANGED <<Unnumbered, logged>>

\* _maybeProcessNext, the skip branch: logger.callSkipped(chainStartMemo, ...)
IdCallSkipped ==
    /\ \E r \in QueueNumbers :
           /\ Active(r)
           /\ OpenIn(r) = {}
           /\ \A e \in issued.log : ~(e.type = "callSkipped" /\ e.queue = r)
           /\ issued' = [issued EXCEPT
                            !.log = @ \cup {IdEvent("callSkipped", NullId,
                                                    issued.memo[r].instanceId, NullId,
                                                    r, 0, 0)}]
    /\ UNCHANGED <<Unnumbered, logged>>

\* the operation that closes a block runs the block's body: the subqueue is
\* cloned and given the running queue as parent, and run() starts a clone
IdRunBlock ==
    /\ \E r \in QueueNumbers : \E n \in Unused :
           /\ Active(r)
           /\ OpenIn(r) # {}
           /\ logged[r].level < MaxNesting
           /\ LeastUnused(n)
           /\ StartWithId(n, Logged_clone(_setParent(
                                 Logged_clone(logged[logged[r].level + 2]), r)), r)
    /\ UNCHANGED Unnumbered

\* this.newChain(value) in an operation
IdNewChain ==
    /\ \E r \in QueueNumbers : \E n \in Unused : \E run \in BOOLEAN :
           /\ Active(r)
           /\ OpenIn(r) # {}
           /\ LeastUnused(n)
           /\ LET child == _newChildQueue(MaxNesting, r)
              IN  StartWithId(n, IF run THEN Logged_clone(child) ELSE child, r)
    /\ UNCHANGED Unnumbered

\* the queue is drained: logger.chainEnd(this._chainStartMemo, ...)
IdChainEnd ==
    /\ \E r \in QueueNumbers :
           /\ Active(r)
           /\ OpenIn(r) = {}
           /\ logged' = [logged EXCEPT ![r].ended = TRUE]
           /\ issued' = [issued EXCEPT
                            !.log = @ \cup {IdEvent("chainEnd", issued.memo[r].instanceId,
                                                    NullId,
                                                    issued.memo[r].parentChainInstanceId,
                                                    r, 0, 0)}]
    /\ UNCHANGED Unnumbered

NextIds ==
    \/ IdStartRun
    \/ IdCallStart
    \/ IdCallEnd
    \/ IdCallSkipped
    \/ IdRunBlock
    \/ IdNewChain
    \/ IdChainEnd

SpecIds == InitWith(Undefined) /\ [][NextIds]_vars

(***************************************************************************)
(* Runs of a chain with blocks, and what their operations store on their   *)
(* contexts (saveToObject of the tests: this[key] = value).                *)
(***************************************************************************)
NoContexts ==
    <<queue, qs, stack, cur, root, pending, obs, given, owner, cloned, runOf,
      facade, builder, blocks, seed, logged, events, again, validated, trace,
      issued>>

StartedRuns == {n \in 1..Len(heap.queues) : heap.queues[n].isStarted}

RunsLeft == Cardinality(StartedRuns) < MaxRuns

InProgress(r) == r \in StartedRuns /\ ~heap.queues[r].ended

\* chain.run(cb): a clone of the chain's queue is started
ContextRun ==
    /\ StartedRuns = {}
    /\ LET h == Context_clone(heap, 1)
       IN  heap' = [h EXCEPT !.queues[Len(h.queues)].isStarted = TRUE]
    /\ UNCHANGED NoContexts

\* _runCall of the descriptor that closes a block: the subqueue is cloned
\* and given the running queue as parent; the closing operation runs the
\* sub-chain made of it (Chain.prototype.run: a clone of it is started)
ContextRunBlock ==
    /\ RunsLeft
    /\ \E r \in StartedRuns :
           /\ InProgress(r)
           /\ heap.queues[r].level < MaxNesting
           /\ LET h1 == Context_clone(heap, heap.queues[r].level + 2)
                  subqueue == Len(h1.queues)
                  h2 == Context_clone(Context_setParent(h1, subqueue, r), subqueue)
              IN  heap' = [h2 EXCEPT !.queues[Len(h2.queues)].isStarted = TRUE,
                                     !.queues[Len(h2.queues)].by = r]
    /\ UNCHANGED NoContexts

\* an operation of the run stores a value: this.savedValue = value
SaveToObject ==
    /\ \E r \in StartedRuns : \E value \in {Str(1), Str(2)} :
           /\ InProgress(r)
           /\ heap' = [heap EXCEPT
                  !.contexts[heap.queues[r]._context].savedValue = value,
                  !.queues[r].stored = value]
    /\ UNCHANGED NoContexts

\* the run has called its terminal callback
ContextRunEnd ==
    /\ \E r \in StartedRuns :
           /\ InProgress(r)
           /\ heap' = [heap EXCEPT !.queues[r].ended = TRUE]
    /\ UNCHANGED NoContexts

NextContexts ==
    \/ ContextRun
    \/ ContextRunBlock
    \/ SaveToObject
    \/ ContextRunEnd

SpecContexts == InitWith(Undefined) /\ [][NextContexts]_vars

(***************************************************************************)
(* Chains with end calls.  The end of the BaseMethods mixin calls          *)
(* this.skip(done) before it calls its callback, so the calls behind it    *)
(* run inside that call of done.                                           *)
(***************************************************************************)
\* chain.end(endCallback)
AddEnd ==
    /\ Idle
    /\ Len(queue) < MaxQueue
    /\ Install(add(FromMain(W), "chain", "end", ~interceptErrors("end")))

\* the end callback returns
EndReturn ==
    /\ cur.k = "endCallback"
    /\ Install([W EXCEPT !.cur = NoUser])

NextEnd ==
    \/ AddToChain
    \/ AddEnd
    \/ Run
    \/ UserDone
    \/ UserDefer
    \/ TapReturn
    \/ EndReturn
    \/ WhenDoneReturn
    \/ AsyncDone

SpecEnd == Init /\ [][NextEnd]_vars

(***************************************************************************)
(* Completions with any first argument: null, undefined, a falsy value or  *)
(* an error, each with a result.                                           *)
(***************************************************************************)
\* what an operation passes as the error
ErrorValues(i) == {Null, Undefined, Zero, EmptyString, False, E(i)}

\* done(error, result)
CallsBack ==
    /\ cur.k \in Completing
    /\ \E error \in ErrorValues(cur.i) :
           Install(done(W, cur.q, cur.i, error, R(cur.i)))

NextErrors ==
    \/ AddToChain
    \/ Run
    \/ CallsBack
    \/ UserThrow
    \/ TapReturn
    \/ WhenDoneReturn

SpecErrors == Init /\ [][NextErrors]_vars

(***************************************************************************)
(* Completions that come again.  Nothing in _runCall or _callDone records  *)
(* that the completion of a call was processed: the done closure, the      *)
(* catch clause and the domain's handler run the same code each time.      *)
(***************************************************************************)
\* how often the completion of one call is invoked
MaxCompletions == 2

\* the end callback throws: the catch clause of end's _runCall is reached
\* after end called done
EndThrow ==
    /\ cur.k = "endCallback"
    /\ Install(raise([W EXCEPT !.obs[cur.q].via[cur.i] = "catch"], X(cur.i)))

\* the operations whose completion callback was invoked
Finished ==
    {p \in [q : QIds, i : Calls] :
        /\ qs[p.q].exists
        /\ obs[p.q].status[p.i] = "done"
        /\ queue[p.i].method = "op"
        /\ obs[p.q].fin[p.i] < MaxCompletions}

\* a callback the operation scheduled invokes done once more
DoneAgain ==
    /\ Idle
    /\ \E p \in Finished : \E oc \in Outcomes :
           LET a == Outcome(oc, p.i)
               w == [W EXCEPT !.root = [k |-> "domain", q |-> p.q, i |-> p.i]]
           IN  Install(done(w, p.q, p.i, a.e, a.r))

\* a callback the operation scheduled throws after done was invoked
ThrowAfterDone ==
    /\ Idle
    /\ \E p \in Finished :
           LET w == [W EXCEPT !.root = [k |-> "domain", q |-> p.q, i |-> p.i]]
           IN  Install(raise(w, X(p.i)))

NextTwice ==
    \/ AddToChain
    \/ AddEnd
    \/ Run
    \/ UserDone
    \/ UserDefer
    \/ TapReturn
    \/ EndReturn
    \/ EndThrow
    \/ WhenDoneReturn
    \/ AsyncDone
    \/ DoneAgain
    \/ ThrowAfterDone

SpecTwice == Init /\ [][NextTwice]_vars

\* the constructor called with any value a caller can provide
ProvidedValues == {R(0), Null, Zero, EmptyString, False}

InitFactory == \E initialValue \in ProvidedValues \cup {Undefined} : InitWith(initialValue)

SpecFactory == InitFactory /\ [][Next]_vars

\* Running user code comes to a decision, and every scheduled callback is
\* eventually run by the event loop (it calls back or throws).
UserStep ==
    UserDone \/ UserDefer \/ UserThrow \/ TapReturn \/ WhenDoneReturn \/ WhenDoneThrow

AsyncStep == AsyncDone \/ AsyncThrow

SpecLive == Init /\ [][Next]_vars /\ WF_vars(UserStep) /\ WF_vars(AsyncStep)

(***************************************************************************)
(* Properties                                                              *)
(***************************************************************************)
Started == {id \in QIds : qs[id].exists /\ qs[id].isStarted}

InFlight(id) == {i \in Calls : obs[id].status[i] = "run"}

Completed(id, i) == obs[id].status[i] \in {"done", "skipped"}

Invoked(id, i) == obs[id].status[i] \in {"run", "done"}

\* call i was invoked and its completion fired with a truthy error
Errored(id, i) == obs[id].status[i] = "done" /\ Truthy(obs[id].fired[i].e)

MethodAt(i) == IF i <= Len(queue) THEN queue[i].method ELSE "none"

\* what _callDone leaves in the context for a completion (error, result)
Left(a) == Args(a.e, IF Truthy(a.e) THEN Undefined ELSE a.r)

\* C1: in a started queue, descriptor N+1 has been invoked or skipped only
\* if the completion callback of descriptor N has fired (strict FIFO), also
\* when N completes asynchronously and N+1 was appended while N was in flight.
C1_StrictOrder ==
    \A id \in QIds : \A i \in Calls :
        (i + 1 \in Calls /\ obs[id].status[i + 1] # "none") => Completed(id, i)

\* call 2 is in flight with its callback pending, call 1 has completed and
\* call 3 was appended meanwhile and waits
C1_Witness ==
    /\ qs["chain"].isStarted
    /\ Len(queue) = 3
    /\ [q |-> "chain", i |-> 2] \in pending
    /\ obs["chain"].status[1] = "done"
    /\ obs["chain"].status[3] = "none"

\* C2: at most one operation of a queue is in flight; a queue that is not
\* started has consumed nothing; and appending a call while a call is in
\* flight leaves every queue object and every call untouched.
C2_Inv ==
    \A id \in QIds :
        /\ Cardinality(InFlight(id)) <= 1
        /\ (InFlight(id) # {}) => qs[id].isProcessing
        /\ ~qs[id].isStarted =>
               /\ qs[id].currentPosition = 0
               /\ \A i \in Calls : obs[id].status[i] = "none"

C2_AppendInFlight ==
    (Len(queue') = Len(queue) + 1 /\ \E id \in QIds : InFlight(id) # {})
        => (qs' = qs /\ obs' = obs /\ cur' = cur)

C2_OneInFlight == []C2_Inv /\ [][C2_AppendInFlight]_vars

\* a call was appended to a started queue while call 1 is in flight
C2_Witness ==
    /\ qs["chain"].isStarted
    /\ InFlight("chain") = {1}
    /\ Len(queue) = 2
    /\ cur.k = "none"

AllOps == \A i \in 1..Len(queue) : queue[i].method = "op"

FirstError(id, k) == Errored(id, k) /\ \A j \in 1..(k - 1) : ~Errored(id, j)

\* C3: in a chain of non-intercepting operations whose first error comes
\* from operation k, no later operation is invoked and the terminal callback
\* is called with operation k's error and an undefined result.
C3_ErrorShortCircuit ==
    \A id \in QIds : \A k \in Calls :
        (AllOps /\ FirstError(id, k)) =>
            /\ \A j \in Calls : j > k => ~Invoked(id, j)
            /\ obs[id].term # <<>> =>
                   obs[id].term[1] = Args(obs[id].fired[k].e, Undefined)

\* three operations, the first one failed with (E, R), the other two were
\* bypassed and the terminal callback was called
C3_Witness ==
    /\ AllOps /\ Len(queue) = 3
    /\ obs["run"].fired[1] = Args(E(1), R(1))
    /\ obs["run"].status[2] = "skipped"
    /\ obs["run"].status[3] = "skipped"
    /\ obs["run"].term # <<>>

\* C4: the terminal callback of a run is invoked at most once.
C4_TerminalAtMostOnce ==
    \A id \in QIds : Len(obs[id].term) <= 1

\* C5: under the fairness of SpecLive (every invoked operation completes),
\* the queue that run(cb) starts eventually calls the terminal callback, with
\* every descriptor the queue held when the run started executed or bypassed.
C5_Drained(id) ==
    /\ obs[id].term # <<>>
    /\ \A i \in 1..obs[id].startLen : Completed(id, i)

C5_RunTerminates ==
    (qs["run"].isStarted /\ qs["run"].whenDone) ~> C5_Drained("run")

\* a run over three descriptors has called its terminal callback
C5_Witness ==
    /\ obs["run"].startLen = 3
    /\ C5_Drained("run")
    /\ \E i \in Calls : obs["run"].status[i] = "skipped"

\* the (error, result) the context holds when call i is reached
PrevState(id, i) ==
    IF i = 1 THEN Args(Undefined, R(0)) ELSE Left(obs[id].fired[i - 1])

CallbackInvoked(id, i) == obs[id].cbArgs[i] # NoArgs

\* C6: recover calls its callback exactly when the queue is in an error
\* state and passes it the current error; without an error the state passes
\* on unchanged; the error state after recover is cleared exactly when the
\* callback called back without an error, and the next operation then runs
\* with the recovered result as previous result.
C6_RecoverInv ==
    \A id \in QIds : \A i \in Calls :
        (MethodAt(i) = "recover" /\ obs[id].status[i] # "none") =>
            /\ obs[id].status[i] # "skipped"
            /\ CallbackInvoked(id, i) <=> Truthy(PrevState(id, i).e)
            /\ CallbackInvoked(id, i) =>
                   obs[id].cbArgs[i].e = PrevState(id, i).e
            /\ ~CallbackInvoked(id, i) =>
                   /\ obs[id].status[i] = "done"
                   /\ obs[id].fired[i] = PrevState(id, i)
            /\ ( /\ CallbackInvoked(id, i)
                 /\ obs[id].status[i] = "done"
                 /\ ~Truthy(obs[id].fired[i].e)
                 /\ i + 1 \in Calls
                 /\ MethodAt(i + 1) = "op"
                 /\ obs[id].status[i + 1] # "none" ) =>
                   /\ obs[id].status[i + 1] # "skipped"
                   /\ obs[id].status[i + 1] = "run" =>
                          /\ ~hasError(qs[id].context)
                          /\ previousResult(qs[id].context) = obs[id].fired[i].r

C6_RecoverStep ==
    \A id \in QIds : \A i \in Calls :
        ( /\ MethodAt(i) = "recover"
          /\ obs[id].status[i] = "run"
          /\ obs'[id].status[i] = "done" ) =>
            /\ hasError(qs'[id].context) <=> Truthy(obs'[id].fired[i].e)
            /\ qs'[id].context = [currentError |-> obs'[id].fired[i].e,
                                  currentResult |-> Left(obs'[id].fired[i]).r]

C6_Recover == []C6_RecoverInv /\ [][C6_RecoverStep]_vars

\* recover got the error of call 1, called back (null, R) and the operation
\* after it is running on the recovered result
C6_Witness ==
    /\ MethodAt(2) = "recover" /\ MethodAt(3) = "op"
    /\ obs["chain"].cbArgs[2].e = E(1)
    /\ obs["chain"].fired[2] = Args(Null, R(2))
    /\ obs["chain"].status[3] = "run"
    /\ previousResult(qs["chain"].context) = R(2)

OpsAndTaps == \A i \in 1..Len(queue) : queue[i].method \in {"op", "tap"}

\* C7: a tap is never bypassed; its callback is called once, with the
\* (error, result) current at its position ((error, undefined) in an error
\* state); a tap whose callback returns passes that state on unchanged; so in
\* a chain of operations and taps the first error reaches every later tap
\* and no later operation is invoked.
C7_TapCascade ==
    \A id \in QIds :
        /\ \A i \in Calls :
               (MethodAt(i) = "tap" /\ obs[id].status[i] # "none") =>
                   /\ obs[id].status[i] # "skipped"
                   /\ obs[id].inv[i] = 1
                   /\ obs[id].cbArgs[i] = PrevState(id, i)
                   /\ Truthy(obs[id].cbArgs[i].e) =>
                          obs[id].cbArgs[i].r = Undefined
                   /\ (obs[id].status[i] = "done" /\ obs[id].via[i] # "catch") =>
                          obs[id].fired[i] = obs[id].cbArgs[i]
        /\ \A k \in Calls :
               (OpsAndTaps /\ FirstError(id, k)) =>
                   \A j \in Calls : j > k =>
                       /\ MethodAt(j) = "op" => ~Invoked(id, j)
                       /\ ( /\ MethodAt(j) = "tap"
                            /\ obs[id].status[j] # "none"
                            /\ \A m \in (k + 1)..(j - 1) :
                                   obs[id].via[m] # "catch" ) =>
                              obs[id].cbArgs[j] = Args(obs[id].fired[k].e, Undefined)

\* operation 1 failed, the tap after it saw (E, undefined) and passed it on,
\* and operation 3 was bypassed
C7_Witness ==
    /\ MethodAt(1) = "op" /\ MethodAt(2) = "tap" /\ MethodAt(3) = "op"
    /\ obs["chain"].fired[1] = Args(E(1), R(1))
    /\ obs["chain"].cbArgs[2] = Args(E(1), Undefined)
    /\ obs["chain"].fired[2] = Args(E(1), Undefined)
    /\ obs["chain"].status[3] = "skipped"

\* the completion of call i is processed in this step
Completes(id, i) == obs[id].status[i] = "run" /\ obs'[id].status[i] = "done"

\* C8 as stated: no tap, end or transform call that completes in an error
\* state leaves the queue without an error.
C8_OnlyRecoverClears ==
    [][ \A id \in QIds : \A i \in Calls :
            ( /\ MethodAt(i) \in {"tap", "transform"}
              /\ hasError(qs[id].context)
              /\ Completes(id, i) ) => hasError(qs'[id].context) ]_vars

\* C8 amended: the error state is left only by the completion of a recover
\* or a transform call whose callback was invoked.
C8_RecoverOrTransformClears ==
    [][ \A id \in QIds :
            (hasError(qs[id].context) /\ ~hasError(qs'[id].context)) =>
                \E i \in Calls :
                    /\ MethodAt(i) \in {"recover", "transform"}
                    /\ CallbackInvoked(id, i)
                    /\ Completes(id, i) ]_vars

\* the transform callback got the error of call 1 and called back (null, R)
C8_Witness ==
    /\ MethodAt(2) = "transform"
    /\ obs["chain"].cbArgs[2] = Args(E(1), Undefined)
    /\ obs["chain"].fired[2] = Args(Null, R(2))
    /\ ~hasError(qs["chain"].context)
    /\ previousResult(qs["chain"].context) = R(2)

\* After call i completed with the exception x: the completion carried
\* (x, undefined); while only non-intercepting calls follow, none of them is
\* invoked, the next tap/end callback gets (x, undefined), and so does the
\* terminal callback when it is first called.
Persists(id, i, x) ==
    /\ obs[id].fired[i] = Args(x, Undefined)
    /\ (qs[id].currentPosition = i /\ Len(obs[id].term) <= 1) =>
           qs[id].context = [currentResult |-> Undefined, currentError |-> x]
    /\ \A j \in Calls :
           (j > i /\ \A m \in (i + 1)..(j - 1) : MethodAt(m) = "op") =>
               /\ MethodAt(j) = "op" => ~Invoked(id, j)
               /\ (MethodAt(j) = "tap" /\ obs[id].status[j] # "none") =>
                      obs[id].cbArgs[j] = Args(x, Undefined)
    /\ ( /\ \A m \in (i + 1)..Len(queue) : MethodAt(m) = "op"
         /\ obs[id].term # <<>> ) =>
           obs[id].term[1] = Args(x, Undefined)

\* C9: an operation that throws before calling back completes with the
\* exception as error: the queue is in the error state with it, later
\* non-intercepting calls are not invoked, and the end or terminal callback
\* gets (exception, undefined).
C9_SyncThrow ==
    \A id \in QIds : \A i \in Calls :
        (MethodAt(i) = "op" /\ obs[id].via[i] = "catch") =>
            /\ obs[id].status[i] = "done"
            /\ Persists(id, i, X(i))

\* operation 1 threw, operation 2 was bypassed, end got (X, undefined)
C9_Witness ==
    /\ MethodAt(1) = "op" /\ MethodAt(2) = "op" /\ MethodAt(3) = "tap"
    /\ obs["chain"].via[1] = "catch"
    /\ obs["chain"].status[2] = "skipped"
    /\ obs["chain"].cbArgs[3] = Args(X(1), Undefined)

\* C10: an exception thrown by a callback that an operation scheduled,
\* before the operation called back, completes the call with the exception
\* as error, with the same consequences.
C10_AsyncThrow ==
    \A id \in QIds : \A i \in Calls :
        (MethodAt(i) = "op" /\ obs[id].via[i] = "domain") =>
            /\ obs[id].status[i] = "done"
            /\ Persists(id, i, X(i))

\* operation 1 threw from its timer, operation 2 was bypassed and the
\* terminal callback of the run got (X, undefined)
C10_Witness ==
    /\ MethodAt(1) = "op" /\ MethodAt(2) = "op" /\ Len(queue) = 2
    /\ obs["run"].via[1] = "domain"
    /\ obs["run"].status[2] = "skipped"
    /\ obs["run"].term # <<>>
    /\ obs["run"].term[1] = Args(X(1), Undefined)

\* C11: a chain made without an initial value executes nothing while calls
\* are appended: until run() is called no call is invoked or bypassed, the
\* position is 0 and no user code is running or scheduled.
C11_NothingBeforeRun ==
    (given = Undefined /\ ~qs["run"].exists) =>
        /\ qs["chain"].currentPosition = 0
        /\ ~qs["chain"].isProcessing
        /\ \A id \in QIds : \A i \in Calls :
               obs[id].status[i] = "none" /\ obs[id].inv[i] = 0
        /\ cur.k = "none"
        /\ pending = {}

\* three calls appended to a chain that was not run
C11_Witness ==
    /\ given = Undefined /\ ~qs["run"].exists
    /\ Len(queue) = 3
    /\ qs["chain"].currentPosition = 0

\* C12: a chain constructed with any provided value (anything but undefined)
\* is started by the constructor with that value, so the first call appended
\* is invoked when it is appended.
C12_ProvidedStartsAtOnce ==
    (given # Undefined /\ Len(queue) >= 1) => obs["chain"].status[1] # "none"

\* what a run of the descriptors from i on delivers, started in state (e, r)
RECURSIVE AloneOn(_, _, _, _)
AloneOn(q, i, e, r) ==
    IF i > Len(q) THEN Args(e, r)
    ELSE LET m == q[i].method
             c == [currentError |-> e, currentResult |-> r]
             a == CASE m = "op" -> IF Truthy(e) THEN Args(e, r) ELSE Calc(m, c, i)
                    [] m = "tap" -> Args(e, r)
                    [] m = "recover" -> IF Truthy(e) THEN Calc(m, c, i) ELSE Args(e, r)
                    [] m = "transform" -> Calc(m, c, i)
         IN  AloneOn(q, i + 1, Left(a).e, Left(a).r)

Alone(initialResult) == AloneOn(queue, 1, Undefined, initialResult)

\* C13: of two runs of one chain whose completions interleave, each takes
\* the descriptors in order from the first, each at most once and all of
\* them by the time its terminal callback is called, and the callback gets
\* what a run alone with the same initial value delivers.
C13_RunsIndependent ==
    \A id \in {"run", "run2"} :
        /\ \A i \in Calls :
               /\ obs[id].inv[i] <= 1
               /\ (i + 1 \in Calls /\ obs[id].status[i + 1] # "none") =>
                      Completed(id, i)
               /\ obs[id].status[i] # "none" => i <= qs[id].currentPosition
        /\ obs[id].term # <<>> =>
               /\ \A i \in 1..Len(queue) : Completed(id, i)
               /\ obs[id].term = <<Alone(InitialOf(id))>>

\* both runs were in flight together, the second finished first, and they
\* delivered different results
C13_Witness ==
    /\ Len(queue) = 3
    /\ obs["run2"].term # <<>> /\ obs["run"].term # <<>>
    /\ obs["run"].term # obs["run2"].term
    /\ \E i \in Calls : obs["run"].status[i] = "done" /\ obs["run2"].status[i] = "skipped"

\* descriptor i is one that chain id was given: appended through it, or
\* appended through the first chain before id was cloned from it
Belongs(i, id) ==
    \/ owner[i] = id
    \/ id \in Clones /\ owner[i] = "chain" /\ i <= cloned[id]

\* C14: the descriptor list of a chain holds only the calls appended through
\* it and, for a clone, those the original had when it was cloned; a run of
\* a chain takes only those (a.clone().add(2) run with 1 yields 3, without
\* the add(3) of the other clone).
C14_CloneIsolated ==
    /\ \A id \in {"chain"} \cup Clones :
           qs[id].exists => \A i \in 1..Len(_queue(id)) : Belongs(i, id)
    /\ \A r \in Runs :
           runOf[r] # "none" =>
               \A i \in 1..Len(owner) :
                   obs[r].status[i] # "none" => Belongs(i, runOf[r])

Range(s) == {s[i] : i \in 1..Len(s)}

\* the numbers of the calls whose descriptors a queue of the Chain holds,
\* the bodies of its closed blocks included
RECURSIVE InQueue(_)
InQueue(q) ==
    UNION {{q[i].n} \cup UNION {InQueue(sub) : sub \in Range(q[i].subqueue)} :
           i \in 1..Len(q)}

InChain(c) ==
    InQueue(c._callQueue) \cup UNION {InQueue(q) : q \in Range(c._callQueueStack)}

\* the same for a CallQueue, its open block and the closed ones
RECURSIVE InCallQueue(_)
InCallQueue(q) ==
    UNION {{q._queue[i].n}
           \cup UNION {InCallQueue(sub) : sub \in Range(q._queue[i].subqueue)} :
           i \in 1..Len(q._queue)}
    \cup UNION {InCallQueue(sub) : sub \in Range(q._subqueue)}

\* C15: a block-closing call whose marker is not that of the innermost open
\* block, or that is made when no block is open, throws, whatever begin and
\* end markers came before it, and its descriptor is in no queue.
C15_MismatchThrows ==
    blocks.last.mismatch =>
        /\ blocks.last.threwChain
        /\ blocks.last.threwQueue
        /\ blocks.n \notin InChain(facade)
        /\ blocks.n \notin InCallQueue(builder)

\* a close of the outer block's marker while an inner block of the other
\* marker is open, two blocks deep
C15_Witness ==
    /\ blocks.last.mismatch
    /\ blocks.thrown
    /\ Len(blocks.open) = 3
    /\ blocks.open[2] # blocks.open[3]

\* C20: clone() and run() called on a chain while a block is open throw,
\* and neither makes a clone of the queue nor starts one.
C20_OpenBlockGuards ==
    (blocks.last.call \in {"clone", "run"} /\ blocks.last.wasOpen) =>
        /\ blocks.last.threwChain
        /\ ~blocks.last.cloned
        /\ ~blocks.last.started

\* run() called inside the inner of two open blocks
C20_Witness ==
    /\ blocks.last.call = "run"
    /\ Len(blocks.open) = 2
    /\ blocks.last.threwChain

\* the body of the block
Body == queue[closing].subqueue

\* C16: the closing operation is called with the sub-chain in front of its
\* declared arguments; each run it makes of the sub-chain takes the body's
\* descriptors in declared order from the first, each at most once, and
\* delivers what the body gives for that run's initial value alone, whatever
\* an earlier run left behind.
C16_BodyRuns ==
    /\ \A i \in 1..Len(queue) :
           (obs["run"].status[i] = "run" /\ queue[i].method = "$end") =>
               argsOf(queue[i]) = <<"subchain">> \o queue[i].args
    /\ \A s \in Subs :
           /\ \A i \in Calls :
                  /\ obs[s].inv[i] <= 1
                  /\ (i + 1 \in Calls /\ obs[s].status[i + 1] # "none") =>
                         Completed(s, i)
                  /\ obs[s].status[i] # "none" =>
                         i <= qs[s].currentPosition /\ i <= Len(Body)
           /\ obs[s].term # <<>> =>
                  /\ \A i \in 1..Len(Body) : Completed(s, i)
                  /\ obs[s].term = <<AloneOn(Body, 1, Undefined, seed[s])>>

\* the first run of the body ended in an error and the second, run after
\* it, in a result
C16_Witness ==
    /\ obs["sub1"].term # <<>> /\ obs["sub2"].term # <<>>
    /\ Truthy(obs["sub1"].term[1].e)
    /\ ~Truthy(obs["sub2"].term[1].e)
    /\ Len(Body) = 2

\* the run s of the body has taken every descriptor and nothing of it is
\* left in flight or scheduled
Drained(s) ==
    /\ qs[s].currentPosition = Len(Body)
    /\ ~qs[s].isProcessing
    /\ \A i \in 1..Len(Body) : Completed(s, i)
    /\ obs[s].term # <<>>
    /\ \A p \in pending : p.q # s

\* C17: the closing descriptor of the chain has completed only if every run
\* of the body has drained, its asynchronous operations included; while an
\* operation of a run of the body is in flight the closing descriptor is in
\* flight and no later descriptor of the chain has begun.
C17_ChildDrainsFirst ==
    /\ Completed("run", closing) =>
           \A s \in Subs : qs[s].exists => Drained(s)
    /\ \A s \in Subs :
           InFlight(s) # {} =>
               /\ obs["run"].status[closing] = "run"
               /\ \A i \in Calls : i > closing => obs["run"].status[i] = "none"

\* an operation of the second run of the body has returned without calling
\* back, and the chain has a descriptor behind the block that waits
C17_Witness ==
    /\ cur.k = "none"
    /\ \E p \in pending : p.q = "sub2" /\ p.i = 2
    /\ obs["run"].status[closing] = "run"
    /\ closing < Len(queue)

\* a descriptor of the chain's run completes in this step
ParentCompletes(i) ==
    /\ obs["run"].status[i] \in {"none", "run"}
    /\ obs'["run"].status[i] \in {"done", "skipped"}

\* C18: while the closing operation is in flight the chain's context holds
\* no error, whatever errors the runs of the body end in; the context of the
\* chain's run, once started, changes only in a step that completes one of its own
\* descriptors, and when that is the closing descriptor it is left with
\* the (error, result) the closing operation called back with.
C18_SubErrorsStayInside ==
    /\ [](obs["run"].status[closing] = "run" => ~hasError(qs["run"].context))
    /\ [][ /\ (qs["run"].isStarted /\ qs'["run"].context # qs["run"].context) =>
                  \E i \in 1..Len(queue) : ParentCompletes(i)
           /\ ParentCompletes(closing) =>
                  LET a == Left(obs'["run"].fired[closing])
                  IN  /\ qs'["run"].context.currentError = a.e
                      /\ qs'["run"].context.currentResult = a.r ]_vars

\* the first run of the body has ended in an error, its terminal callback
\* is running, and the chain's context holds no error
C18_Witness ==
    /\ cur.k = "whenDone" /\ cur.q = "sub1"
    /\ Truthy(obs["sub1"].term[1].e)
    /\ hasError(qs["sub1"].context)
    /\ obs["run"].status[closing] = "run"
    /\ ~hasError(qs["run"].context)

\* C19: every event carries the depth of nesting of the run it belongs to:
\* 0 for the run of the chain, one more than the starting run's for a run
\* of a block's body and for a chain made by newChain; the chain-end and
\* call events of a run carry the depth of its chain-start event.
C19_EventDepths ==
    /\ \A ev \in events : ev.depth = ev.truth
    /\ \A ev \in events :
           /\ ev.type = "chainStart" =>
                  ev.depth = IF logged[ev.queue]._parentQueue = 0 THEN 0
                             ELSE logged[logged[ev.queue]._parentQueue].truth + 1
           /\ ev.type # "chainStart" =>
                  \E st \in events :
                      st.type = "chainStart" /\ st.queue = ev.queue /\ st.depth = ev.depth

\* a run of the chain with the blocks run one inside the other has ended:
\* there are chain-start and chain-end events of each depth 0..MaxNesting
C19_Witness ==
    /\ \A n \in QueueNumbers : logged[n]._chainStartMemo.started => logged[n].ended
    /\ \A d \in 0..MaxNesting :
           \E st \in events, en \in events :
               /\ st.type = "chainStart" /\ en.type = "chainEnd"
               /\ st.queue = en.queue /\ st.depth = d /\ en.depth = d
    /\ \E ev \in events : ev.type = "callStart" /\ ev.depth = MaxNesting

\* C21: a start of a queue that is already started throws and leaves the
\* terminal callback, the context's result and the position as they were.
C21_SecondStartRejected ==
    again.called =>
        /\ again.threw
        /\ again.after.whenDone = again.before.whenDone
        /\ again.after.context.currentResult = again.before.context.currentResult
        /\ again.after.currentPosition = again.before.currentPosition

\* C22..C26: the call that was validated
Supplied == validated.args
Declared == validated.method.argSpec
Positions == 1..Len(Declared)
PreviousPasses ==
    \/ ~validated.method.hasPrevious
    \/ _validatePreviousResult(validated.previous,
                               validated.method.previousResultSpec) = NoError
\* the arguments are looked at: specs are declared, the previous result
\* passes and there are no more arguments than specs
Looked ==
    /\ validated.ran
    /\ validated.method.hasArgs
    /\ PreviousPasses
    /\ Len(Supplied) <= Len(Declared)
Missing(i) == i > Len(Supplied)
RequiredMissing == {i \in Positions : Missing(i) /\ Declared[i].required}
\* the value position i starts from, and the value it comes to
ValueAt(i) ==
    IF ~Missing(i) THEN Supplied[i]
    ELSE IF Declared[i].defaultToPreviousResult THEN validated.previous
    ELSE Declared[i].default
ExpectsOther(i) ==
    \/ Declared[i].instanceOf # NoClass
    \/ Declared[i].type \notin {"", "function"}
DerivedAt(i) ==
    IF ValueAt(i).t = "function" /\ ExpectsOther(i)
    THEN derive(ValueAt(i), validated.previous)
    ELSE ValueAt(i)
FailsAt(i) ==
    \/ i \in RequiredMissing
    \/ Declared[i].type # "" /\ typeof(DerivedAt(i)) # Declared[i].type
    \/ Declared[i].instanceOf # NoClass /\ ~instanceof(DerivedAt(i), Declared[i].instanceOf)
Failing == {i \in Positions : FailsAt(i)}
Lowest(S) == CHOOSE i \in S : \A j \in S : i <= j

\* C22: when a required position has no argument the call fails and the
\* operation is not invoked; the failure reported is that of the lowest
\* failing position, and where that is a required position without an
\* argument the error names it, counted from 1.
C22_RequiredReported ==
    (validated.ran /\ validated.method.hasArgs /\ RequiredMissing # {}) =>
        /\ validated.out.error # NoError
        /\ ~validated.applied
        /\ Looked =>
            /\ validated.out.at = Lowest(Failing)
            /\ Lowest(Failing) \in RequiredMissing =>
                   validated.out.error = RequiredError(Lowest(Failing))

C22_Witness ==
    /\ Looked
    /\ \E i, j \in RequiredMissing : i < j
    /\ validated.out.error = RequiredError(Lowest(RequiredMissing))
    /\ ~validated.applied

\* C23: a call with more arguments than its method declares fails with the
\* error that carries the declared and the supplied counts, whatever the
\* positions hold: no position is looked at, no function among the arguments
\* is invoked, and the operation is not invoked.
C23_CountFirst ==
    (validated.ran /\ validated.method.hasArgs /\ PreviousPasses
        /\ Len(Supplied) > Len(Declared)) =>
        /\ validated.out.error = CountError(Len(Declared), Len(Supplied))
        /\ validated.out.at = 0
        /\ validated.out.derived = {}
        /\ ~validated.applied

C23_Witness ==
    /\ validated.ran /\ validated.method.hasArgs /\ PreviousPasses
    /\ Len(Supplied) > Len(Declared)
    /\ Failing # {}
    /\ \E i \in Positions : ValueAt(i).t = "function" /\ ExpectsOther(i)
    /\ validated.out.error = CountError(Len(Declared), Len(Supplied))

\* the positions whose value is a function taken to derive the argument
Deriving == {i \in Positions : ValueAt(i).t = "function" /\ ExpectsOther(i)}

\* C24: when the validation succeeds the operation is applied to one value
\* for each declared position and then the completion callback; a position
\* with a supplied argument holds that argument, a position without one holds
\* the previous result where the spec asks for it and the declared default
\* otherwise (positions whose value is a deriving function hold what it
\* returned).
C24_Defaults ==
    (validated.ran /\ validated.method.hasArgs /\ validated.applied) =>
        /\ Len(validated.passed) = Len(Declared) + 1
        /\ validated.passed[Len(Declared) + 1] = doneCallback
        /\ \A i \in Positions \ Deriving :
               validated.passed[i] =
                   IF ~Missing(i) THEN Supplied[i]
                   ELSE IF Declared[i].defaultToPreviousResult THEN validated.previous
                   ELSE Declared[i].default
        /\ \A i \in Positions : Missing(i) => ~Declared[i].required

C24_Witness ==
    /\ validated.ran /\ validated.method.hasArgs /\ validated.applied
    /\ \E i, j \in Positions \ Deriving :
           /\ ~Missing(i) /\ validated.passed[i] = Supplied[i]
           /\ Missing(j) /\ Declared[j].defaultToPreviousResult
           /\ validated.passed[j] = validated.previous
           /\ validated.previous # Declared[j].default

\* the positions the loop came to with a function for a value
FunctionAt ==
    {i \in Positions : /\ validated.out.at = 0 \/ i <= validated.out.at
                       /\ i \notin RequiredMissing
                       /\ ValueAt(i).t = "function"}

C26_PreviousFirst ==
    (validated.ran /\ validated.method.hasPrevious /\ ~PreviousPasses) =>
        /\ validated.out.error =
               _validatePreviousResult(validated.previous,
                                       validated.method.previousResultSpec)
        /\ validated.out.error.kind \in {"previousType", "previousInstanceOf"}
        /\ validated.out.at = 0
        /\ validated.out.derived = {}
        /\ ~validated.applied

C26_Witness ==
    /\ validated.ran /\ validated.method.hasPrevious /\ ~PreviousPasses
    /\ validated.method.hasArgs
    /\ Len(Supplied) <= Len(Declared)
    /\ Failing # {}
    /\ Deriving # {}
    /\ validated.out.error.kind = "previousType"

\* call i of the queue failed its validation
FailedValidation(id, i) == [q |-> id, i |-> i] \in validated.failed

\* C27: a call whose validation fails completes like an operation that
\* failed: the operation is not applied, the completion carries (validation
\* error, undefined) and leaves the queue in the error state with it, the
\* non-intercepting calls after it are bypassed, and the next intercepting
\* call is given the validation error.
C27_ValidationIsError ==
    \A id \in QIds : \A i \in Calls :
        FailedValidation(id, i) =>
            /\ [q |-> id, i |-> i] \notin validated.appliedTo
            /\ obs[id].status[i] = "done"
            /\ Persists(id, i, ValidationFailure(i))
            /\ \A j \in Calls :
                   (j > i /\ \A m \in (i + 1)..(j - 1) : MethodAt(m) = "op") =>
                       /\ MethodAt(j) = "op" =>
                              /\ obs[id].status[j] \in {"none", "skipped"}
                              /\ [q |-> id, i |-> j] \notin validated.appliedTo
                       /\ (interceptErrors(MethodAt(j)) /\ obs[id].status[j] # "none") =>
                              /\ obs[id].status[j] # "skipped"
                              /\ obs[id].cbArgs[j].e = ValidationFailure(i)
                              /\ MethodAt(j) # "recover" =>
                                     obs[id].cbArgs[j].r = Undefined

\* call 1 failed its validation, call 2 was bypassed and the transform after
\* it was given the validation error
C27_Witness ==
    /\ MethodAt(1) = "op" /\ MethodAt(2) = "op" /\ MethodAt(3) = "transform"
    /\ FailedValidation("chain", 1)
    /\ validated.appliedTo = {}
    /\ obs["chain"].status[2] = "skipped"
    /\ obs["chain"].cbArgs[3] = Args(ValidationFailure(1), Undefined)

\* the events the run has logged
Log == trace.log
LogAt(type) == {p \in 1..Len(Log) : Log[p].type = type}

\* C28: the trace of a run is well nested: it begins with the run's
\* chain-start event and nothing follows its chain-end event, and every
\* call-start event is followed, before any other event, by the call-end
\* event of the same call, however the call completes.
C28_WellNested ==
    /\ Log # <<>> => LogAt("chainStart") = {1}
    /\ \A p \in LogAt("chainEnd") : p = Len(Log)
    /\ \A p \in LogAt("callStart") :
           p < Len(Log) =>
               Log[p + 1].type = "callEnd" /\ Log[p + 1].call = Log[p].call
    /\ \A p \in LogAt("callEnd") :
           p > 1 /\ Log[p - 1].type = "callStart" /\ Log[p - 1].call = Log[p].call

LogOf(i) == {p \in 1..Len(Log) : Log[p].call = i}

\* C30: a call that is bypassed in the error state advances the position
\* and is logged as exactly one call-skipped event, with no call-start and
\* no call-end event; the call-skipped events come in the order of the
\* calls, and each carries the depth of the run's chain-start event and the
\* name of the call's method.
C30_SkipsLogged ==
    /\ \A i \in 1..Len(queue) :
           obs["run"].status[i] = "skipped" =>
               /\ qs["run"].currentPosition >= i
               /\ \E p \in LogOf(i) :
                      /\ LogOf(i) = {p}
                      /\ Log[p] = [type |-> "callSkipped", call |-> i,
                                   depth |-> Log[1].depth,
                                   methodName |-> queue[i].method]
    /\ \A p \in LogAt("callSkipped") :
           /\ obs["run"].status[Log[p].call] = "skipped"
           /\ \A r \in LogAt("callSkipped") : p < r => Log[p].call < Log[r].call
    /\ Log # <<>> =>
           /\ Log[1].type = "chainStart"
           /\ Log[1].depth = trace.memo.depth

\* the first operation failed and the two after it were bypassed, in a run
\* of a block's body
C30_Witness ==
    /\ Len(queue) = 3
    /\ Truthy(obs["run"].fired[1].e)
    /\ obs["run"].status[2] = "skipped"
    /\ obs["run"].status[3] = "skipped"
    /\ Len(Log) >= 5
    /\ Log[4].type = "callSkipped" /\ Log[5].type = "callSkipped"
    /\ Log[4].depth > 0

IdLog(types) == {e \in issued.log : e.type \in types}

\* C29: chain runs and call executions have instanceIds that differ from
\* one another; the end event of a run or a call carries the instanceId of
\* its start event; the chainInstanceId of a call's events is the instanceId
\* of the run the call belongs to; and the parentChainInstanceId of a run is
\* the instanceId of the run whose operation started it, and null for a run
\* that no operation started.
C29_Ids ==
    /\ \A s1 \in IdLog({"chainStart", "callStart"}) :
           \A s2 \in IdLog({"chainStart", "callStart"}) :
               s1.number # s2.number => s1.instanceId # s2.instanceId
    /\ \A e \in IdLog({"callEnd"}) :
           \E s \in IdLog({"callStart"}) :
               /\ s.number = e.of
               /\ s.instanceId = e.instanceId
               /\ s.chainInstanceId = e.chainInstanceId
    /\ \A e \in IdLog({"chainEnd"}) :
           \E s \in IdLog({"chainStart"}) :
               /\ s.queue = e.queue
               /\ s.instanceId = e.instanceId
               /\ s.parentChainInstanceId = e.parentChainInstanceId
    /\ \A e \in IdLog({"callStart", "callEnd", "callSkipped"}) :
           \E s \in IdLog({"chainStart"}) :
               s.queue = e.queue /\ s.instanceId = e.chainInstanceId
    /\ \A s \in IdLog({"chainStart"}) :
           IF s.starter = 0 THEN s.parentChainInstanceId = NullId
           ELSE \E ps \in IdLog({"chainStart"}) :
                    ps.queue = s.starter /\ ps.instanceId = s.parentChainInstanceId

\* a run started by a call of a run that a call of the first run started
\* has logged the start and the end of a call and its own end
C29_Witness ==
    \E s \in IdLog({"chainStart"}) : \E ps \in IdLog({"chainStart"}) :
        /\ s.starter = ps.queue /\ ps.starter # 0
        /\ s.parentChainInstanceId = ps.instanceId
        /\ \E e \in IdLog({"callEnd"}) : e.queue = s.queue
        /\ \E e \in IdLog({"chainEnd"}) : e.queue = s.queue

\* this of an operation of run n
ContextOf(n) == heap.contexts[heap.queues[n]._context]

\* this.parent, this.parent.parent, ... of context c
RECURSIVE ParentsOf(_)
ParentsOf(c) ==
    IF heap.contexts[c].parent = 0 THEN <<>>
    ELSE <<heap.contexts[c].parent>> \o ParentsOf(heap.contexts[c].parent)

\* the contexts of the queue whose closing call started run n, of the queue
\* that started that one, ...
RECURSIVE StartersOf(_)
StartersOf(n) ==
    IF heap.queues[n].by = 0 THEN <<>>
    ELSE <<heap.queues[heap.queues[n].by]._context>> \o StartersOf(heap.queues[n].by)

\* C31: in a sub-chain run, this.parent is the context of the queue that
\* executed the block-closing call, this.parent.parent that queue's parent
\* and so on, and the parent of the root run's context is null; every run
\* has a context of its own, which holds exactly what the run's own
\* operations stored on it: nothing of a parent, a sibling or a child.
C31_ParentContexts ==
    \A n \in StartedRuns :
        /\ ParentsOf(heap.queues[n]._context) = StartersOf(n)
        /\ ContextOf(n).savedValue = heap.queues[n].stored
        /\ \A m \in StartedRuns :
               m # n => heap.queues[m]._context # heap.queues[n]._context

\* the test: the chain's run stored value-1, the run of its block value-2,
\* and the run of the block inside that one and the run of the second block
\* of the chain stored nothing
C31_Witness ==
    \E g, p, c, s \in StartedRuns :
        /\ heap.queues[g].by = 0 /\ heap.queues[g].stored = Str(1)
        /\ heap.queues[p].by = g /\ heap.queues[p].stored = Str(2)
        /\ heap.queues[c].by = p /\ ContextOf(c).savedValue = Undefined
        /\ heap.queues[s].by = g /\ s # p /\ ContextOf(s).savedValue = Undefined
        /\ ParentsOf(heap.queues[c]._context)
               = <<heap.queues[p]._context, heap.queues[g]._context>>

\* C32: end operates identically to tap: an end call is never bypassed, its
\* callback is invoked once, with the (error, result) current at end's
\* position, whatever calls follow it, and end passes the state on unchanged.
C32_EndLikeTap ==
    \A id \in QIds : \A i \in Calls :
        (MethodAt(i) = "end" /\ obs[id].status[i] # "none") =>
            /\ obs[id].status[i] # "skipped"
            /\ obs[id].inv[i] = 1
            /\ CallbackInvoked(id, i) => obs[id].cbArgs[i] = PrevState(id, i)
            /\ obs[id].status[i] = "done" => obs[id].fired[i] = PrevState(id, i)

\* how many blocks a CallQueue has open, one inside the other
RECURSIVE OpenDepth(_)
OpenDepth(q) == IF q._subqueue = <<>> THEN 0 ELSE 1 + OpenDepth(q._subqueue[1])

\* the queue of the block open at depth d of a CallQueue (0: the queue itself)
RECURSIVE OpenAt(_, _)
OpenAt(q, d) == IF d = 0 THEN q ELSE OpenAt(q._subqueue[1], d - 1)

\* the same for the Chain of chainFactory.js
FacadeAt(c, d) ==
    IF d = Len(c._callQueueStack) THEN c._callQueue ELSE c._callQueueStack[d + 1]

\* the call made in this step was appended to the queue at depth d alone
RoutedTo(d, sub, subchain) ==
    LET n == blocks'.n
        was == OpenAt(builder, d)
        is == OpenAt(builder', d)
        last == is._queue[Len(is._queue)]
        to == FacadeAt(facade', d)
    IN  /\ Len(is._queue) = Len(was._queue) + 1
        /\ SubSeq(is._queue, 1, Len(was._queue)) = was._queue
        /\ last.n = n
        /\ last.subqueue = sub
        /\ to = Append(FacadeAt(facade, d), to[Len(to)])
        /\ to[Len(to)].n = n
        /\ to[Len(to)].subqueue = subchain
        /\ \A k \in 0..(d - 1) :
               /\ OpenAt(builder', k)._queue = OpenAt(builder, k)._queue
               /\ OpenAt(builder', k)._currentPosition
                      = OpenAt(builder, k)._currentPosition
               /\ FacadeAt(facade', k) = FacadeAt(facade, k)

\* C33: while a block is open, a call (a nested begin or end marker too) is
\* appended to the queue of the innermost open block and to no enclosing
\* queue, and no enclosing queue executes it, started or not; the matching
\* end marker alone appends the closing descriptor, which carries the
\* completed child queue, to the parent queue.
C33_Step ==
    (blocks'.n = blocks.n + 1 /\ ~blocks'.thrown /\ blocks.open # <<>>) =>
        LET d == Len(blocks.open)
        IN  /\ OpenDepth(builder) = d
            /\ OpenDepth(builder') = Len(blocks'.open)
            /\ Len(facade'._callQueueStack) = Len(blocks'.open)
            /\ IF blocks'.last.call = "end"
               THEN /\ RoutedTo(d - 1, <<OpenAt(builder, d)>>, <<FacadeAt(facade, d)>>)
                    /\ Len(blocks'.open) = d - 1
               ELSE /\ RoutedTo(d, <<>>, <<>>)
                    /\ OpenAt(builder', d)._currentPosition = 0

C33_Routed == [][C33_Step]_vars

\* the queue of the chain is started and has run the begin marker; an
\* operation was appended inside the inner of two open blocks
C33_Witness ==
    /\ builder._isStarted
    /\ builder._currentPosition = 1
    /\ Len(blocks.open) = 2
    /\ blocks.last.call = "op"
    /\ OpenDepth(builder) = 2
    /\ Len(OpenAt(builder, 2)._queue) = 1
    /\ OpenAt(builder, 2)._queue[1].n = blocks.n

\* the call the queue consumed last
LastConsumed(id) == qs[id].currentPosition

\* C34: a queue's context is in an error state exactly when its current
\* error is a truthy value, and then its current result is undefined: every
\* completed or bypassed call leaves the error it was completed with, and
\* undefined as the result if that error is truthy, whatever result the
\* operation passed.
C34_ErrorForcesUndefined ==
    \A id \in QIds :
        qs[id].exists =>
            LET c == qs[id].context
                i == LastConsumed(id)
            IN  /\ hasError(c) <=> c.currentError.t \in {"E", "X"}
                /\ hasError(c) => c.currentResult = Undefined
                /\ (i > 0 /\ Completed(id, i)) =>
                       /\ c.currentError = obs[id].fired[i].e
                       /\ c.currentResult =
                              IF obs[id].fired[i].e.t \in {"E", "X"}
                              THEN Undefined ELSE obs[id].fired[i].r

\* call 1 called back (0, R): no error state, the result is kept; call 2
\* called back (E, R): the result is undefined
C34_Witness ==
    /\ obs["run"].fired[1] = Args(Zero, R(1))
    /\ obs["run"].fired[2] = Args(E(2), R(2))
    /\ obs["run"].status[2] = "done"
    /\ qs["run"].currentPosition = 2
    /\ qs["run"].context = [currentError |-> E(2), currentResult |-> Undefined]

\* the descriptors a queue has taken from its list
Consumed(id) == {i \in Calls : obs[id].status[i] # "none"}

\* C35: the position of a queue is at most the length of its list, is 0
\* until the queue is started and never decreases; it counts the descriptors
\* the queue has executed or bypassed, each of which it took once, the first
\* position of them; and a run that has called its terminal callback has
\* consumed every descriptor it held when it started.
C35_Inv ==
    \A id \in QIds :
        qs[id].exists =>
            /\ qs[id].currentPosition <= Len(queue)
            /\ ~qs[id].isStarted => qs[id].currentPosition = 0
            /\ Consumed(id) = 1..qs[id].currentPosition
            /\ \A i \in Consumed(id) :
                   obs[id].inv[i] = IF obs[id].status[i] = "skipped" THEN 0 ELSE 1
            /\ obs[id].term # <<>> => qs[id].currentPosition >= obs[id].startLen

C35_Step ==
    \A id \in QIds :
        qs[id].exists =>
            /\ qs'[id].currentPosition >= qs[id].currentPosition
            /\ \A i \in Consumed(id) :
                   /\ obs'[id].inv[i] = obs[id].inv[i]
                   /\ obs[id].status[i] = "skipped" => obs'[id].status[i] = "skipped"

C35_PositionCounts == []C35_Inv /\ [][C35_Step]_vars

\* a run over three descriptors has executed the first, bypassed the other
\* two and called the terminal callback, while the chain's own queue, not
\* started, is at position 0
C35_Witness ==
    /\ Len(queue) = 3
    /\ qs["run"].currentPosition = 3
    /\ obs["run"].status[1] = "done"
    /\ obs["run"].status[2] = "skipped"
    /\ obs["run"].status[3] = "skipped"
    /\ obs["run"].term # <<>>
    /\ ~qs["chain"].isStarted
    /\ qs["chain"].currentPosition = 0

\* the completion of call i of queue id is invoked in this step, after it
\* was invoked before
CompletesAgain(id, i) ==
    obs[id].fin[i] >= 1 /\ obs'[id].fin[i] > obs[id].fin[i]

\* C36: the completion of a call is processed at most once: when the
\* completion callback of a call is invoked again, or an exception of the
\* operation or of a user callback reaches the catch clause or the domain's
\* handler after it was invoked, the context's (error, result) and the
\* position stay as they are and no operation is started.
C36_Step ==
    \A id \in QIds : \A i \in Calls :
        (qs[id].exists /\ CompletesAgain(id, i)) =>
            /\ qs'[id].context = qs[id].context
            /\ qs'[id].currentPosition = qs[id].currentPosition
            /\ obs'[id].inv = obs[id].inv

C36_ProcessedOnce == [][C36_Step]_vars

\* C37: a run started by run() executes exactly the descriptors the chain
\* held when run() was called: a call appended to the chain afterwards,
\* while the run is in progress, is neither executed nor bypassed by the run.
C37_RunIsSnapshot ==
    qs["run"].exists =>
        \A i \in Calls :
            i > obs["run"].startLen => obs["run"].status[i] = "none"

\* the call before the block failed: the run reaches the block in an error
\* state
ErrorBeforeBlock ==
    /\ qs["run"].exists
    /\ closing = 3
    /\ obs["run"].status[1] = "done"
    /\ Truthy(obs["run"].fired[1].e)

ChainEnds == {k \in 1..Len(trace.log) : trace.log[k].type = "chainEnd"}

\* the queue was started, had calls to process and has nothing left to do
RunOver(id) ==
    /\ qs[id].exists
    /\ qs[id].isStarted
    /\ ~qs[id].isProcessing
    /\ queue # <<>>
    /\ qs[id].currentPosition = Len(queue)
    /\ Idle
    /\ pending = {}

\* C39: a chain run that logged chain-start logs chain-end exactly once,
\* after all the events of its calls, whatever the shape of the chain: with
\* an end call and a terminal callback, with calls behind the end call, and
\* started at once without a terminal callback.
C39_OneChainEnd ==
    /\ Cardinality(ChainEnds) <= 1
    /\ \A k \in ChainEnds : \A j \in 1..Len(trace.log) :
           j > k => trace.log[j].type \notin {"callStart", "callEnd", "callSkipped"}
    /\ \A id \in {"chain", "run"} : RunOver(id) => ChainEnds # {}

\* the step is a call of a block method
Added == blocks'.n = blocks.n + 1

\* C40: a call of add that throws a structural error leaves the building
\* state as it was: the nesting counters, the open subqueue and block name of
\* every queue on the path, the stacks of the chain and all descriptor lists
\* are those of before the call, and a close that matches the innermost open
\* block succeeds afterwards.
C40_Step ==
    /\ (Added /\ blocks'.last.threwQueue) => builder' = builder
    /\ (Added /\ blocks'.last.threwChain) => facade' = facade
    /\ (Added /\ blocks'.last.call = "end" /\ blocks'.last.wasOpen
              /\ ~blocks'.last.mismatch) => ~blocks'.thrown

C40_ThrowKeepsState == [][C40_Step]_vars

====
